---- MODULE Spec2Model ----
(***************************************************************************)
(* A model of the htsget-rs byte-range resolver and of its Crypt4GH        *)
(* edit-list builder.                                                      *)
(*                                                                         *)
(*   SpecEditList  async-crypt4gh: EditHeader over a Reader                *)
(*   SpecMerge     BytesPosition::merge_all                                *)
(*   SpecSearch    BAM / BCF search over an index                          *)
(***************************************************************************)
EXTENDS Integers, Sequences, FiniteSets, TLC

VARIABLES
  src,       \* bytes of the Crypt4GH header of the stored object
  reader,    \* Reader<R>: what read_header has parsed so far
  eh,        \* EditHeader: unencrypted_positions, keys, stream_length
  created,   \* Option<Vec<u64>>: the value of create_edit_list, once called
  result,    \* Option<Result<Option<Header>>>: the value of edit_list, once called
  reread,    \* Option<reader>: a second Reader over Header::as_slice()
  mIn,       \* merge_all: the argument
  mOut,      \* merge_all: Option<result>
  file,      \* the stored data object and its index, as one search sees them
  query,     \* the Query of the request
  spc,       \* position of the search task
  futures,   \* FuturesUnordered: the contig lookups spawned and not yet completed
  found,     \* Option<ref_seq_index>: what find_first returned
  ranges,    \* Option<Result<Vec<BytesPosition>>>: what the engine computed
  response,  \* Option<Result<Response>>
  storage,   \* the Storage handle HtsGetFromStorage shares between requests
  tasks,     \* the concurrent search requests, each with the state of its own task
  qry,       \* a Query under construction
  qprev,     \* the Query before the last builder call
  qop,       \* the last builder call: its name, its argument, the calls so far
  interval,  \* an Interval
  qres,      \* Option<the value of the last call on the Interval or on the Query's keys>
  headers,   \* Result<Headers>
  hlog,      \* the (key, value) entries put into headers, in order
  s3,        \* the S3 object behind the key, or its absence
  s3sent,    \* the requests the last S3Storage call sent to S3, in order
  s3out,     \* Option<the last S3Storage call and its Result>
  lambda_request, \* the lambda_http Request given to Router::route_request
  routed     \* Option<what route_request returned for it>

editVars == <<src, reader, eh, created, result, reread>>
mergeVars == <<mIn, mOut>>
searchVars == <<file, query, spc, futures, found, ranges, response>>
concVars == <<storage, tasks>>
typeVars == <<qry, qprev, qop, interval, qres>>
headerVars == <<headers, hlog>>
s3Vars == <<s3, s3sent, s3out>>
routerVars == <<lambda_request, routed>>
vars == <<src, reader, eh, created, result, reread, mIn, mOut,
          file, query, spc, futures, found, ranges, response,
          storage, tasks, qry, qprev, qop, interval, qres, headers, hlog,
          s3, s3sent, s3out, lambda_request, routed>>

----------------------------------------------------------------------------
(* Option and Result values *)

None == <<>>
Some(x) == <<x>>
IsSome(o) == Len(o) = 1
Unwrap(o) == o[1]

Ok(v) == [tag |-> "Ok", err |-> "", value |-> Some(v)]
Err(e) == [tag |-> "Err", err |-> e, value |-> None]
IsOk(r) == r.tag = "Ok"

\* the parts of the model a specification leaves alone
ConcIdle == storage = <<>> /\ tasks = <<>>
TypesIdle == qry = <<>> /\ qprev = <<>> /\ qop = <<>> /\ interval = <<>> /\ qres = None
HeadersIdle == headers = <<>> /\ hlog = <<>>
S3Idle == s3 = <<>> /\ s3sent = <<>> /\ s3out = None
RouterIdle == lambda_request = <<>> /\ routed = None

\* to_string of an integer: the decimal digits, most significant first
RECURSIVE to_string(_)
to_string(n) ==
  LET digit == <<"0", "1", "2", "3", "4", "5", "6", "7", "8", "9">>[(n % 10) + 1]
  IN  IF n < 10 THEN <<digit>> ELSE to_string(n \div 10) \o <<digit>>

Min(a, b) == IF a <= b THEN a ELSE b
Max(a, b) == IF a >= b THEN a ELSE b

----------------------------------------------------------------------------
(* Bytes *)

RECURSIVE to_le_bytes(_, _)
to_le_bytes(n, w) ==
  IF w = 0 THEN <<>> ELSE <<n % 256>> \o to_le_bytes(n \div 256, w - 1)

RECURSIVE from_le_bytes(_)
from_le_bytes(b) ==
  IF b = <<>> THEN 0 ELSE b[1] + 256 * from_le_bytes(Tail(b))

RECURSIVE SumBytes(_)
SumBytes(b) == IF b = <<>> THEN 0 ELSE b[1] + SumBytes(Tail(b))

RECURSIVE Concat(_)
Concat(ss) == IF ss = <<>> THEN <<>> ELSE ss[1] \o Concat(Tail(ss))

Drop(b, n) == SubSeq(b, n + 1, Len(b))
Take(b, n) == SubSeq(b, 1, n)

----------------------------------------------------------------------------
(* Bounds of the model *)

MaxPositions == 3      \* unencrypted positions of one EditHeader
MaxSessionKeys == 2    \* session-key packets of the stored header
KeyLen == 2            \* bytes of a key (32 in Crypt4GH)
NonceLen == 1          \* bytes of a nonce (12 in Crypt4GH)
MacLen == 1            \* bytes of an authentication tag (16 in Crypt4GH)

\* plaintext block size of Crypt4GH
BlockSize == 65536

\* stream_length and the offsets of tests::test_positions
StreamLength == 5485112
Offsets == {0, 7853, 145110, 453039, 5485074, StreamLength}

RECURSIVE NonDecreasing(_, _)
NonDecreasing(k, lo) ==
  IF k = 0 THEN {<<>>}
  ELSE UNION {{<<x>> \o t : t \in NonDecreasing(k - 1, x)} : x \in {o \in Offsets : o >= lo}}

RECURSIVE Pairs(_)
Pairs(s) ==
  IF s = <<>> THEN <<>>
  ELSE <<[start |-> s[1], end |-> s[2]]>> \o Pairs(Tail(Tail(s)))

\* ordered (start <= end <= next start) lists of UnencryptedPosition
PositionLists == UNION {{Pairs(s) : s \in NonDecreasing(2 * n, 0)} : n \in 0..MaxPositions}

test_positions ==
  <<[start |-> 0, end |-> 7853], [start |-> 145110, end |-> 453039],
    [start |-> 5485074, end |-> 5485112]>>

expected_edit_list == <<0, 7853, 71721, 307929, 51299, 38>>

----------------------------------------------------------------------------
(* Crypt4GH header packets (the crypt4gh crate) *)

magic == <<99, 114, 121, 112, 116, 52, 103, 104>>   \* "crypt4gh"

\* key pairs are numbered; the public key of pair k as bytes
pubkey(k) == [i \in 1..KeyLen |-> (16 * k + i) % 256]
keyid(pub) == (pub[1] - 1) \div 16
\* the Diffie-Hellman shared secret of a private key and a public key
shared(priv, pub) == ((priv * keyid(pub)) % 255) + 1

seal(plain, s) == [i \in 1..Len(plain) |-> (plain[i] + s) % 256]
open(cipher, s) == [i \in 1..Len(cipher) |-> (cipher[i] + 256 - s) % 256]
mac(plain, s) == [i \in 1..MacLen |-> (SumBytes(plain) + s + i) % 256]
nonce == [i \in 1..NonceLen |-> 7]

\* crypt4gh::header::encrypt for one recipient: method, writer public key, nonce, sealed data
encrypt(packet, privkey, recipient_pubkey) ==
  LET s == shared(privkey, recipient_pubkey)
  IN  to_le_bytes(0, 4) \o pubkey(privkey) \o nonce \o seal(packet, s) \o mac(packet, s)

\* the reader's side: None when the packet was not sealed for privkey
decrypt(enc, privkey) ==
  IF Len(enc) < 4 + KeyLen + NonceLen + MacLen \/ from_le_bytes(Take(enc, 4)) # 0 THEN None
  ELSE LET writer == SubSeq(enc, 5, 4 + KeyLen)
           s == shared(privkey, writer)
           body == SubSeq(enc, 5 + KeyLen + NonceLen, Len(enc) - MacLen)
           tag == Drop(enc, Len(enc) - MacLen)
           plain == open(body, s)
       IN  IF tag = mac(plain, s) THEN Some(plain) ELSE None

\* packet type 0: a data encryption (session key) packet
make_packet_data_enc(key) == to_le_bytes(0, 4) \o to_le_bytes(0, 4) \o key

\* packet type 1: the number of lengths, then each length as a u64
make_packet_data_edit_list(edit_list) ==
  to_le_bytes(1, 4) \o to_le_bytes(Len(edit_list), 4)
    \o Concat([i \in 1..Len(edit_list) |-> to_le_bytes(edit_list[i], 8)])

parse_edit_list(plain) ==
  LET n == from_le_bytes(SubSeq(plain, 5, 8))
  IN  [i \in 1..n |-> from_le_bytes(SubSeq(plain, 9 + 8 * (i - 1), 8 + 8 * i))]

session_key(k) == [i \in 1..KeyLen |-> (100 + 10 * k + i) % 256]

\* bincode of HeaderInfo: magic_number, version, packets_count
serialize_header_info(info) ==
  info.magic_number \o to_le_bytes(info.version, 4) \o to_le_bytes(info.packets_count, 4)

\* the header of a stored object: nkeys session-key packets for reader key 1,
\* written by key pair 2, and an edit-list packet when with_edit_list
stored_header(nkeys, with_edit_list) ==
  LET plain == [i \in 1..nkeys |-> make_packet_data_enc(session_key(i))]
                 \o (IF with_edit_list THEN <<make_packet_data_edit_list(<<0, 10>>)>> ELSE <<>>)
      packets == [i \in 1..Len(plain) |-> encrypt(plain[i], 2, pubkey(1))]
  IN  serialize_header_info([magic_number |-> magic, version |-> 1, packets_count |-> Len(packets)])
        \o Concat([i \in 1..Len(packets) |-> to_le_bytes(Len(packets[i]) + 4, 4) \o packets[i]])

----------------------------------------------------------------------------
(* Reader (async-crypt4gh reader) *)

unread_reader ==
  [header_info |-> None, encrypted_header_packets |-> None,
   session_keys |-> <<>>, edit_list_packet |-> None, error |-> FALSE]

\* what read_packets yields where the bytes end before the packet does
truncated == [packet_length |-> <<>>, header |-> <<>>]

RECURSIVE read_packets(_, _)
\* count packets from bytes, each a length field and length - 4 bytes
read_packets(bytes, count) ==
  IF count = 0 THEN <<>>
  ELSE IF Len(bytes) < 4 \/ from_le_bytes(Take(bytes, 4)) < 4
            \/ from_le_bytes(Take(bytes, 4)) > Len(bytes) THEN <<truncated>>
  ELSE LET len == from_le_bytes(Take(bytes, 4))
       IN  <<[packet_length |-> Take(bytes, 4), header |-> SubSeq(bytes, 5, len)]>>
             \o read_packets(Drop(bytes, len), count - 1)

packet_type(plain) == from_le_bytes(Take(plain, 4))

\* Reader::read_header with one private key
read_header(bytes, privkey) ==
  IF Len(bytes) < 16 \/ Take(bytes, 8) # magic \/ from_le_bytes(SubSeq(bytes, 9, 12)) # 1
  THEN [unread_reader EXCEPT !.error = TRUE]
  ELSE LET info == [magic_number |-> Take(bytes, 8),
                    version |-> from_le_bytes(SubSeq(bytes, 9, 12)),
                    packets_count |-> from_le_bytes(SubSeq(bytes, 13, 16))]
           packets == read_packets(Drop(bytes, 16), info.packets_count)
       IN  IF \E i \in 1..Len(packets) : packets[i] = truncated
           THEN [unread_reader EXCEPT !.error = TRUE]
           ELSE LET plains == [i \in 1..Len(packets) |-> decrypt(packets[i].header, privkey)]
                    opened == SelectSeq(plains, IsSome)
                    keys == SelectSeq(opened, LAMBDA p : packet_type(Unwrap(p)) = 0)
                    edits == SelectSeq(opened, LAMBDA p : packet_type(Unwrap(p)) = 1)
                IN  IF keys = <<>> \/ Len(edits) > 1
                    THEN [unread_reader EXCEPT !.error = TRUE]
                    ELSE [header_info |-> Some(info),
                          encrypted_header_packets |-> Some(packets),
                          session_keys |-> [i \in 1..Len(keys) |-> Drop(Unwrap(keys[i]), 8)],
                          edit_list_packet |->
                            IF edits = <<>> THEN None
                            ELSE Some(parse_edit_list(Unwrap(edits[1]))),
                          error |-> FALSE]

----------------------------------------------------------------------------
(* EditHeader (async-crypt4gh/src/edit_lists.rs) *)

\* the previous block boundary
unencrypted_clamp(pos, stream_length) == (pos \div BlockSize) * BlockSize

\* the next block boundary, capped at the stream length
unencrypted_clamp_next(pos, stream_length) ==
  Min(((pos + BlockSize - 1) \div BlockSize) * BlockSize, stream_length)

RECURSIVE create_edit_list_fold(_, _, _, _)
\* the fold of create_edit_list over the remaining positions
create_edit_list_fold(positions, stream_length, edit_list, previous_discard) ==
  IF positions = <<>> THEN edit_list
  ELSE LET range == Head(positions)
           start_boundary == unencrypted_clamp(range.start, stream_length)
           end_boundary == unencrypted_clamp_next(range.end, stream_length)
           discard == range.start - start_boundary + previous_discard
           keep == range.end - range.start
       IN  create_edit_list_fold(Tail(positions), stream_length,
                                 edit_list \o <<discard, keep>>, end_boundary - range.end)

RECURSIVE create_edit_list_no_carry(_, _)
\* create_edit_list without the carried previous_discard
create_edit_list_no_carry(positions, stream_length) ==
  IF positions = <<>> THEN <<>>
  ELSE LET range == Head(positions)
       IN  <<range.start - unencrypted_clamp(range.start, stream_length),
             range.end - range.start>>
             \o create_edit_list_no_carry(Tail(positions), stream_length)

create_edit_list(positions, stream_length) ==
  create_edit_list_fold(positions, stream_length, <<>>, 0)

encrypt_edit_list(e, edit_list_packet) ==
  encrypt(edit_list_packet, e.private_key, e.recipient_public_key)

as_slice(header) == header.header_info \o header.original_header \o header.edit_list_packet

\* edit_list with its three choices open: the guard on an existing edit list,
\* the increment of packets_count, the bytes the length field adds
edit_list_with(r, e, guard, increment, length_field) ==
  IF guard /\ IsSome(r.edit_list_packet) THEN Err("Crypt4GHError")
  ELSE IF ~(IsSome(r.header_info) /\ IsSome(r.encrypted_header_packets)) THEN Ok(None)
  ELSE LET info == Unwrap(r.header_info)
           packets == Unwrap(r.encrypted_header_packets)
           encrypted_header_packets ==
             Concat([i \in 1..Len(packets) |-> packets[i].packet_length \o packets[i].header])
           header_info ==
             [magic_number |-> info.magic_number, version |-> info.version,
              packets_count |-> info.packets_count + increment]
           header_info_bytes == serialize_header_info(header_info)
           edit_list_packet ==
             make_packet_data_edit_list(create_edit_list(e.unencrypted_positions, e.stream_length))
           edit_list_bytes == encrypt_edit_list(e, edit_list_packet)
       IN  Ok(Some([header_info |-> header_info_bytes,
                    original_header |-> encrypted_header_packets,
                    edit_list_packet |->
                      to_le_bytes(Len(edit_list_bytes) + length_field, 4) \o edit_list_bytes]))

edit_list_unguarded(r, e) == edit_list_with(r, e, FALSE, 1, 4)
edit_list_same_count(r, e) == edit_list_with(r, e, TRUE, 0, 4)
edit_list_body_length(r, e) == edit_list_with(r, e, TRUE, 1, 0)

edit_list(r, e) == edit_list_with(r, e, TRUE, 1, 4)

----------------------------------------------------------------------------
(* The edit-list flows of tests::test_create_edit_list and test_append_edit_list *)

InitEdit ==
  /\ \E n \in 1..MaxSessionKeys, w \in BOOLEAN : src = stored_header(n, w)
  /\ reader = unread_reader
  /\ \E ps \in PositionLists, rk \in {1, 3} :
       eh = [unencrypted_positions |-> ps, private_key |-> 2,
             recipient_public_key |-> pubkey(rk), stream_length |-> StreamLength]
  /\ created = None
  /\ result = None
  /\ reread = None
  \* merge_all and the search are idle
  /\ mIn = <<>>
  /\ mOut = None
  /\ file = <<>>
  /\ query = <<>>
  /\ spc = "idle"
  /\ futures = {}
  /\ found = None
  /\ ranges = None
  /\ response = None
  /\ ConcIdle /\ TypesIdle /\ HeadersIdle /\ S3Idle /\ RouterIdle

\* reader.read_header() with the recipient's private key; EditHeader borrows
\* the reader, so the header is read before the EditHeader is used
ReadHeader ==
  /\ reader = unread_reader
  /\ created = None /\ result = None
  /\ reader' = read_header(src, 1)
  /\ UNCHANGED <<src, eh, created, result, reread>>

CreateEditList ==
  /\ created = None
  /\ created' = Some(create_edit_list(eh.unencrypted_positions, eh.stream_length))
  /\ UNCHANGED <<src, reader, eh, result, reread>>

EditList ==
  /\ result = None
  /\ result' = Some(edit_list(reader, eh))
  /\ UNCHANGED <<src, reader, eh, created, reread>>

\* a second Reader over header.as_slice(), with the same private key
ReadBack ==
  /\ IsSome(result) /\ IsOk(Unwrap(result)) /\ IsSome(Unwrap(Unwrap(result).value))
  /\ reread = None
  /\ reread' = Some(read_header(as_slice(Unwrap(Unwrap(Unwrap(result).value))), 1))
  /\ UNCHANGED <<src, reader, eh, created, result>>

NextEdit ==
  \/ ReadHeader /\ UNCHANGED <<mergeVars, searchVars, concVars, typeVars, headerVars, s3Vars, routerVars>>
  \/ CreateEditList /\ UNCHANGED <<mergeVars, searchVars, concVars, typeVars, headerVars, s3Vars, routerVars>>
  \/ EditList /\ UNCHANGED <<mergeVars, searchVars, concVars, typeVars, headerVars, s3Vars, routerVars>>
  \/ ReadBack /\ UNCHANGED <<mergeVars, searchVars, concVars, typeVars, headerVars, s3Vars, routerVars>>

SpecEditList == InitEdit /\ [][NextEdit]_vars

----------------------------------------------------------------------------
(* Claims about the edit-list builder *)

ClampDown(x) == x - (x % BlockSize)
ClampUp(x, len) ==
  IF x % BlockSize = 0 THEN Min(x, len) ELSE Min(x - (x % BlockSize) + BlockSize, len)
Trailing(ps, i, len) == IF i = 0 THEN 0 ELSE ClampUp(ps[i].end, len) - ps[i].end

\* C1: create_edit_list of n ordered positions is the 2n-vector
\* [discard_1, keep_1, ..., discard_n, keep_n] with keep_i = e_i - s_i and
\* discard_i = (s_i - clamp_down(s_i)) + trailing_(i-1), trailing_0 = 0,
\* trailing_i = clamp_up(e_i) - e_i capped at stream_length; the positions of
\* test_positions give [0, 7853, 71721, 307929, 51299, 38].
C1_CreateEditList ==
  IsSome(created) =>
    LET ps == eh.unencrypted_positions
        el == Unwrap(created)
        len == eh.stream_length
    IN  /\ Len(el) = 2 * Len(ps)
        /\ \A i \in 1..Len(ps) :
             /\ el[2 * i - 1] = (ps[i].start - ClampDown(ps[i].start)) + Trailing(ps, i - 1, len)
             /\ el[2 * i] = ps[i].end - ps[i].start
        /\ (ps = test_positions => el = expected_edit_list)

C1_Witness ==
  /\ IsSome(created)
  /\ eh.unencrypted_positions = test_positions
  /\ Unwrap(created) = expected_edit_list

\* C2: edit_list on a reader whose header already holds an edit-list packet
\* is Err(Crypt4GHError) and carries no header, whatever the positions and the
\* other packets are.
C2_ExistingEditListFails ==
  IsSome(result) /\ IsSome(reader.edit_list_packet) =>
    /\ Unwrap(result).tag = "Err"
    /\ Unwrap(result).err = "Crypt4GHError"
    /\ Unwrap(result).value = None

C2_Witness ==
  /\ IsSome(result)
  /\ IsSome(reader.edit_list_packet)
  /\ Len(Unwrap(reader.encrypted_header_packets)) = 3
  /\ Unwrap(result).tag = "Err"

RECURSIVE PacketOffset(_, _)
\* the bytes before packet i of a header: HeaderInfo and the packets before it
PacketOffset(packets, i) ==
  IF i = 1 THEN 16 ELSE PacketOffset(packets, i - 1) + 4 + Len(packets[i - 1].header)

HeaderProduced ==
  IsSome(result) /\ IsOk(Unwrap(result)) /\ IsSome(Unwrap(Unwrap(result).value))

\* C3: the header of a successful edit_list is the original HeaderInfo with
\* packets_count + 1, then every original packet (length field, bytes) in
\* order, then the encrypted edit-list packet behind a little-endian u32 that
\* is the encrypted length plus 4.
C3_HeaderLayout ==
  HeaderProduced =>
    LET bytes == as_slice(Unwrap(Unwrap(Unwrap(result).value)))
        info == Unwrap(reader.header_info)
        packets == Unwrap(reader.encrypted_header_packets)
        n == Len(packets)
        tail == Drop(bytes, PacketOffset(packets, n + 1))
    IN  /\ Take(bytes, 8) = info.magic_number
        /\ from_le_bytes(SubSeq(bytes, 9, 12)) = info.version
        /\ from_le_bytes(SubSeq(bytes, 13, 16)) = info.packets_count + 1
        /\ \A i \in 1..n :
             LET off == PacketOffset(packets, i)
             IN  /\ SubSeq(bytes, off + 1, off + 4) = packets[i].packet_length
                 /\ SubSeq(bytes, off + 5, off + 4 + Len(packets[i].header)) = packets[i].header
        /\ Len(tail) > 4
        /\ from_le_bytes(Take(tail, 4)) = (Len(tail) - 4) + 4
        /\ Drop(tail, 4) =
             encrypt(make_packet_data_edit_list(
                       create_edit_list(eh.unencrypted_positions, eh.stream_length)),
                     eh.private_key, eh.recipient_public_key)

C3_Witness ==
  /\ HeaderProduced
  /\ Len(Unwrap(reader.encrypted_header_packets)) = 2
  /\ eh.unencrypted_positions = test_positions

\* C4: reading the rewritten header back with the recipient's key gives the
\* edit list create_edit_list(P) and the session keys of the original header.
C4_RoundTrip ==
  IsSome(reread) /\ eh.recipient_public_key = pubkey(1) =>
    /\ ~Unwrap(reread).error
    /\ Unwrap(reread).edit_list_packet =
         Some(create_edit_list(eh.unencrypted_positions, eh.stream_length))
    /\ Unwrap(reread).session_keys = reader.session_keys

C4_Witness ==
  /\ IsSome(reread)
  /\ eh.recipient_public_key = pubkey(1)
  /\ eh.unencrypted_positions = test_positions
  /\ Unwrap(reread).edit_list_packet = Some(expected_edit_list)
  /\ Len(Unwrap(reread).session_keys) = 2

----------------------------------------------------------------------------
(* BytesPosition and merge_all (htsget-search storage) *)

MaxMergeLen == 3   \* positions handed to merge_all
MaxByte == 2       \* the bytes merge_all's positions range over

Header == "header"
Body == "body"

BytesPosition(start, end, class) == [start |-> start, end |-> end, class |-> class]
with_class(pos, class) == [pos EXCEPT !.class = Some(class)]

\* Option<Class> in its derived order: None, Header, Body
class_rank(class) == IF class = None THEN 0 ELSE IF class = Some(Header) THEN 1 ELSE 2

\* a before b in the order (class, start, end)
position_le(a, b) ==
  \/ class_rank(a.class) < class_rank(b.class)
  \/ /\ a.class = b.class
     /\ \/ a.start < b.start
        \/ a.start = b.start /\ a.end <= b.end

RECURSIVE insert_sorted(_, _)
insert_sorted(p, sorted) ==
  IF sorted = <<>> THEN <<p>>
  ELSE IF position_le(p, Head(sorted)) THEN <<p>> \o sorted
  ELSE <<Head(sorted)>> \o insert_sorted(p, Tail(sorted))

RECURSIVE sort_positions(_)
sort_positions(list) ==
  IF list = <<>> THEN <<>> ELSE insert_sorted(Head(list), sort_positions(Tail(list)))

\* same class, and curr starts at or before the byte prev ends at
can_be_merged(prev, curr) == prev.class = curr.class /\ curr.start <= prev.end

\* a merge that takes the later position's end for the larger end
merge_with_last_end(prev, curr) ==
  BytesPosition(Min(prev.start, curr.start), curr.end, prev.class)

merge_with(prev, curr) ==
  BytesPosition(Min(prev.start, curr.start), Max(prev.end, curr.end), prev.class)

RECURSIVE merge_fold(_, _)
\* the fold over the sorted list: merged holds the output so far, its last
\* element the position still open to merging
merge_fold(sorted, merged) ==
  IF sorted = <<>> THEN merged
  ELSE LET curr == Head(sorted)
           prev == merged[Len(merged)]
       IN  IF merged # <<>> /\ can_be_merged(prev, curr)
           THEN merge_fold(Tail(sorted),
                           [merged EXCEPT ![Len(merged)] = merge_with(prev, curr)])
           ELSE merge_fold(Tail(sorted), Append(merged, curr))

\* merge_all that sorts and merges nothing
merge_all_sort_only(list) == sort_positions(list)

merge_all(list) == merge_fold(sort_positions(list), <<>>)

MergeClasses == {None, Some(Header), Some(Body)}
MergePositions ==
  {BytesPosition(s, e, c) : s \in 0..MaxByte, e \in 0..MaxByte, c \in MergeClasses}
    \ {p \in [start : 0..MaxByte, end : 0..MaxByte, class : MergeClasses] : p.start > p.end}

InitMerge ==
  /\ mIn = <<>>
  /\ mOut = None
  \* the EditHeader and the search are idle
  /\ src = <<>>
  /\ reader = unread_reader
  /\ eh = <<>>
  /\ created = None
  /\ result = None
  /\ reread = None
  /\ file = <<>>
  /\ query = <<>>
  /\ spc = "idle"
  /\ futures = {}
  /\ found = None
  /\ ranges = None
  /\ response = None
  /\ ConcIdle /\ TypesIdle /\ HeadersIdle /\ S3Idle /\ RouterIdle

\* one more position for the list merge_all is called with
PushPosition ==
  /\ mOut = None
  /\ Len(mIn) < MaxMergeLen
  /\ \E p \in MergePositions : mIn' = Append(mIn, p)
  /\ UNCHANGED mOut

MergeAll ==
  /\ mOut = None
  /\ mOut' = Some(merge_all(mIn))
  /\ UNCHANGED mIn

NextMerge ==
  \/ PushPosition /\ UNCHANGED <<editVars, searchVars, concVars, typeVars, headerVars, s3Vars, routerVars>>
  \/ MergeAll /\ UNCHANGED <<editVars, searchVars, concVars, typeVars, headerVars, s3Vars, routerVars>>

SpecMerge == InitMerge /\ [][NextMerge]_vars

----------------------------------------------------------------------------
(* Claims about merge_all *)

Covers(list, class, x) ==
  \E i \in 1..Len(list) : list[i].class = class /\ list[i].start <= x /\ x < list[i].end

Mergeable(a, b) == a.class = b.class /\ a.start <= b.end /\ b.start <= a.end

Within(p, q) == p.class = q.class /\ q.start <= p.start /\ p.end <= q.end

\* C8: merge_all returns a canonical list: sorted by (class, start, end), no
\* two positions of it mergeable (same class, touching or overlapping), every
\* input position inside one output position of its class whose start is the
\* least start and whose end is the greatest end of the inputs it holds, and
\* per class the same bytes covered as in the input.
C8_MergeAllCanonical ==
  IsSome(mOut) =>
    LET out == Unwrap(mOut)
    IN  /\ \A i \in 1..Len(out) - 1 : position_le(out[i], out[i + 1]) /\ out[i] # out[i + 1]
        /\ \A i, j \in 1..Len(out) : i # j => ~Mergeable(out[i], out[j])
        /\ \A i \in 1..Len(mIn) : \E j \in 1..Len(out) : Within(mIn[i], out[j])
        /\ \A j \in 1..Len(out) :
             /\ \E i \in 1..Len(mIn) : Within(mIn[i], out[j]) /\ mIn[i].start = out[j].start
             /\ \E i \in 1..Len(mIn) : Within(mIn[i], out[j]) /\ mIn[i].end = out[j].end
        /\ \A c \in MergeClasses, x \in 0..MaxByte : Covers(mIn, c, x) <=> Covers(out, c, x)
        /\ \A i, k \in 1..Len(mIn) :
             Mergeable(mIn[i], mIn[k]) =>
               \E j \in 1..Len(out) : Within(mIn[i], out[j]) /\ Within(mIn[k], out[j])

C8_Witness ==
  /\ IsSome(mOut)
  /\ Len(mIn) = 3
  /\ Len(Unwrap(mOut)) = 2
  /\ \E i, k \in 1..Len(mIn) : i < k /\ mIn[k].start < mIn[i].start /\ mIn[i].class = mIn[k].class
  /\ \E i, k \in 1..Len(mIn) : i # k /\ mIn[i].class # mIn[k].class /\ mIn[i].start = mIn[k].start

----------------------------------------------------------------------------
(* The stored object and its index, as a search reads them *)

MaxRefs == 2          \* reference sequences (contigs) of a file
Window == 2           \* bases of one linear-index window and of one leaf bin
BlockGap == 100000    \* bytes between the BGZF blocks the index points at

\* header_end of htsnexus_test_NA12878.bam
HeaderEnd == 4668
BGZF_EOF_LEN == 28
BGZF_BLOCK_READAHEAD == 65536
MAX_SEQ_POSITION == 536870911   \* (1 << 29) - 1

Bam == "BAM"
Bcf == "BCF"

RefNames == <<"chr1", "chr2", "chr3", "chr4">>
UnknownName == "chrX"

VirtualPosition(compressed, uncompressed) ==
  [compressed |-> compressed, uncompressed |-> uncompressed]
bytes_range_start(vp) == vp.compressed
vp_le(a, b) ==
  a.compressed < b.compressed \/ (a.compressed = b.compressed /\ a.uncompressed <= b.uncompressed)

\* a chunk of the bin that covers the bases [beg, end)
Chunk(beg, end, cstart, cend) ==
  [bin |-> [beg |-> beg, end |-> end],
   start |-> VirtualPosition(cstart, 0), end |-> VirtualPosition(cend, 0)]

\* the bytes of one reference sequence start RegionSize after those of the one before
RegionSize == 4 * BlockGap
RegionStart(r) == HeaderEnd + (r - 1) * RegionSize

Shapes == {"empty", "one", "gap", "touch"}

\* the index of reference sequence r: its chunks by bin, its linear index, its metadata
ReferenceSequence(r, shape, meta) ==
  LET b == RegionStart(r)
      g == BlockGap
      chunks ==
        CASE shape = "empty" -> <<>>
          [] shape = "one" -> <<Chunk(0, Window, b, b + g)>>
          [] shape = "gap" ->
               <<Chunk(0, Window, b, b + g), Chunk(Window, 2 * Window, b + 2 * g, b + 3 * g)>>
          [] shape = "touch" ->
               <<Chunk(Window, 2 * Window, b + g, b + 2 * g), Chunk(0, Window, b, b + g)>>
      intervals ==
        CASE shape = "empty" -> <<>>
          [] shape = "one" -> <<VirtualPosition(b, 0)>>
          [] shape = "gap" -> <<VirtualPosition(b, 0), VirtualPosition(b + 2 * g, 0)>>
          [] shape = "touch" -> <<VirtualPosition(b, 0), VirtualPosition(b + g, 0)>>
      last_end ==
        CASE shape = "one" -> b + g
          [] shape = "gap" -> b + 3 * g
          [] shape = "touch" -> b + 2 * g
          [] OTHER -> b
  IN  [chunks |-> chunks, intervals |-> intervals,
       metadata |->
         IF meta /\ shape # "empty"
         THEN Some([start_position |-> VirtualPosition(b, 0),
                    end_position |-> VirtualPosition(last_end, 1)])
         ELSE None]

RefIndexes(r) == {ReferenceSequence(r, shape, meta) : shape \in Shapes, meta \in BOOLEAN}

RECURSIVE Indexes(_)
\* the indexes of files with n reference sequences
Indexes(n) ==
  IF n = 0 THEN {<<>>}
  ELSE {Append(index, rs) : index \in Indexes(n - 1), rs \in RefIndexes(n)}

\* a coordinate-sorted file: header, one region per reference sequence, the EOF block
StoredFile(format, index) ==
  [format |-> format,
   header_end |-> HeaderEnd,
   file_size |-> RegionStart(Len(index) + 1) + BGZF_EOF_LEN,
   reference_sequences |->
     [r \in 1..Len(index) |->
        [name |-> RefNames[r],
         len |-> IF format = Bcf /\ r = 1 THEN None ELSE Some(2 * Window)]],
   index |-> index]

\* size of htsnexus_test_NA12878.bam and the start of its unmapped reads
TestFileSize == 2596799
TestUnmappedStart == 2060795

\* the file the tests search: its header ends at HeaderEnd, the last entry of
\* its linear index points at TestUnmappedStart
htsnexus_test_NA12878 ==
  [format |-> Bam,
   header_end |-> HeaderEnd,
   file_size |-> TestFileSize,
   reference_sequences |-> <<[name |-> RefNames[1], len |-> Some(2 * Window)]>>,
   index |-> <<[chunks |-> <<Chunk(0, 2 * Window, HeaderEnd, TestUnmappedStart)>>,
                intervals |-> <<VirtualPosition(HeaderEnd, 0),
                                VirtualPosition(TestUnmappedStart, 0)>>,
                metadata |-> None]>>]

\* the BCF file of tests::search_reference_name_with_invalid_seq_range: a contig chrM
sample1_bcbio_cancer ==
  [StoredFile(Bcf, <<ReferenceSequence(1, "one", FALSE)>>)
     EXCEPT !.reference_sequences = <<[name |-> "chrM", len |-> None]>>]

Files == {StoredFile(format, index) :
            format \in {Bam, Bcf}, index \in UNION {Indexes(n) : n \in 0..MaxRefs}}
           \cup {htsnexus_test_NA12878, sample1_bcbio_cancer}

Query(format, class, reference_name, start, end, blocking) ==
  [format |-> format, class |-> class, reference_name |-> reference_name,
   start |-> start, end |-> end, blocking |-> blocking]

QueryNames ==
  {None, Some("*"), Some(UnknownName)} \cup {Some(RefNames[r]) : r \in 1..MaxRefs}

Queries ==
  {Query(format, class, name, start, end, FALSE) :
     format \in {Bam, Bcf}, class \in {Header, Body}, name \in QueryNames,
     start \in {None, Some(0), Some(Window)},
     end \in {None, Some(2 * Window)}}
  \cup {Query(Bam, Body, Some("*"), None, None, TRUE)}
  \cup {Query(Bcf, Body, Some("chrM"), Some(0), Some(153), FALSE)}

----------------------------------------------------------------------------
(* BGZF search: from a reference sequence and an interval to byte positions *)

\* the chunks of the bins that overlap [start, end)
chunks_of_overlapping_bins(rs, start, end) ==
  SelectSeq(rs.chunks, LAMBDA c : c.bin.beg < end /\ start < c.bin.end)

\* the linear-index entry of the window that holds start
min_offset(rs, start) ==
  IF (start \div Window) + 1 <= Len(rs.intervals)
  THEN rs.intervals[(start \div Window) + 1]
  ELSE VirtualPosition(0, 0)

\* drop the chunks that end before the linear index's lower bound
linear_index_prune(chunks, lower) ==
  SelectSeq(chunks, LAMBDA c : vp_le(lower, c.end))

RECURSIVE insert_chunk(_, _)
insert_chunk(c, sorted) ==
  IF sorted = <<>> THEN <<c>>
  ELSE IF vp_le(c.start, Head(sorted).start) THEN <<c>> \o sorted
  ELSE <<Head(sorted)>> \o insert_chunk(c, Tail(sorted))

RECURSIVE sort_chunks(_)
sort_chunks(chunks) ==
  IF chunks = <<>> THEN <<>> ELSE insert_chunk(Head(chunks), sort_chunks(Tail(chunks)))

RECURSIVE merge_chunks(_, _)
merge_chunks(sorted, merged) ==
  IF sorted = <<>> THEN merged
  ELSE LET next == Head(sorted)
           prev == merged[Len(merged)]
       IN  IF merged # <<>> /\ next.start.compressed <= prev.end.compressed
           THEN merge_chunks(Tail(sorted),
                  [merged EXCEPT ![Len(merged)].end =
                     IF vp_le(prev.end, next.end) THEN next.end ELSE prev.end])
           ELSE merge_chunks(Tail(sorted), Append(merged, next))

\* sort by start; merge the chunks that overlap or share a block
optimize_chunks(chunks) == merge_chunks(sort_chunks(chunks), <<>>)

\* a chunk as bytes: from the block it starts in to past the block it ends in
bytes_position_of_chunk(c) ==
  BytesPosition(bytes_range_start(c.start),
                bytes_range_start(c.end) + BGZF_BLOCK_READAHEAD, None)

bam_max_seq_position(ref_seq) == Unwrap(ref_seq.len)
bcf_max_seq_position(ref_seq) == MAX_SEQ_POSITION

\* an engine that takes a start of 0
bcf_invalid_range_never(seq_start) == FALSE

\* the older BCF engine converts the start to a 1-based position and rejects 0
bcf_invalid_range(seq_start) == seq_start = Some(0)

\* HtsGetError::InvalidRange(format!("{}-{}", seq_start, seq_end))
InvalidRange(seq_start, seq_end) ==
  [tag |-> "Err", err |-> "InvalidRange", value |-> None,
   message |-> to_string(seq_start) \o <<"-">> \o to_string(seq_end)]

get_byte_ranges_for_reference_sequence_bgzf(f, max_seq_position, ref_seq_id, seq_start, seq_end) ==
  IF f.format = Bcf /\ bcf_invalid_range(seq_start)
    THEN InvalidRange(IF IsSome(seq_start) THEN Unwrap(seq_start) ELSE 0,
                      IF IsSome(seq_end) THEN Unwrap(seq_end) ELSE max_seq_position)
  ELSE LET rs == f.index[ref_seq_id]
           start == IF IsSome(seq_start) THEN Unwrap(seq_start) ELSE 0
           end == IF IsSome(seq_end) THEN Unwrap(seq_end) ELSE max_seq_position
           chunks == linear_index_prune(chunks_of_overlapping_bins(rs, start, end),
                                        min_offset(rs, start))
           optimized == optimize_chunks(chunks)
       IN  Ok(merge_all([i \in 1..Len(optimized) |-> bytes_position_of_chunk(optimized[i])]))

----------------------------------------------------------------------------
(* BamSearch (htsget/bam_search.rs, htsget/blocking/bam_search.rs) *)

RECURSIVE last_interval(_)
\* index.reference_sequences().iter().rev().find_map(|rs| rs.intervals().last())
last_interval(index) ==
  IF index = <<>> THEN None
  ELSE LET rs == index[Len(index)]
       IN  IF rs.intervals # <<>> THEN Some(rs.intervals[Len(rs.intervals)])
           ELSE last_interval(SubSeq(index, 1, Len(index) - 1))

RECURSIVE last_metadata_end(_)
\* the end_position of the last reference sequence that has metadata
last_metadata_end(index) ==
  IF index = <<>> THEN None
  ELSE LET rs == index[Len(index)]
       IN  IF IsSome(rs.metadata) THEN Some(Unwrap(rs.metadata).end_position)
           ELSE last_metadata_end(SubSeq(index, 1, Len(index) - 1))

get_header_end_offset(f) == f.header_end
head(f) == f.file_size

\* one position from start to end_of_data
unmapped_range(f, start_or_metadata, end_of_data) ==
  LET start == IF IsSome(start_or_metadata) THEN Unwrap(start_or_metadata)
               ELSE VirtualPosition(get_header_end_offset(f), 0)
  IN  Ok(<<BytesPosition(bytes_range_start(start), end_of_data, None)>>)

\* the unmapped range taken from the metadata, where the index has it
get_byte_ranges_for_unmapped_from_metadata(f) ==
  unmapped_range(f,
                 IF IsSome(last_metadata_end(f.index)) THEN last_metadata_end(f.index)
                 ELSE last_interval(f.index),
                 head(f) - BGZF_EOF_LEN)

get_byte_ranges_for_unmapped(f) ==
  unmapped_range(f, last_interval(f.index), head(f) - BGZF_EOF_LEN)

blocking_get_byte_ranges_for_unmapped(f) ==
  unmapped_range(f, last_interval(f.index), head(f))

\* header.reference_sequences().get_full(name)
get_reference_sequence_from_name(f, name) ==
  LET hits == {r \in 1..Len(f.reference_sequences) : f.reference_sequences[r].name = name}
  IN  IF hits = {} THEN None ELSE Some(CHOOSE r \in hits : TRUE)

bam_get_byte_ranges_for_reference_sequence(f, ref_seq_id, q) ==
  get_byte_ranges_for_reference_sequence_bgzf(
    f, bam_max_seq_position(f.reference_sequences[ref_seq_id]), ref_seq_id, q.start, q.end)

\* SearchReads: `*` is the unmapped reads, any other name a reference sequence of the header
get_byte_ranges_for_reference_name_reads(f, name, q) ==
  IF name = "*" THEN get_byte_ranges_for_unmapped(f)
  ELSE LET ref == get_reference_sequence_from_name(f, name)
       IN  IF ref = None THEN Err("NotFound")
           ELSE bam_get_byte_ranges_for_reference_sequence(f, Unwrap(ref), q)

----------------------------------------------------------------------------
(* BcfSearch (htsget/bcf_search.rs) *)

\* a task that answers for every contig
lookup_task_any(f, i, reference_name) == Some(i)

\* a task that also answers for the first contig of the header
lookup_task_or_first(f, i, reference_name) ==
  IF f.reference_sequences[i].name = reference_name \/ i = 1 THEN Some(i) ELSE None

\* the spawned task of contig i: Some((ref_seq_index, contig)) when the name is its name
lookup_task(f, i, reference_name) ==
  IF f.reference_sequences[i].name = reference_name THEN Some(i) ELSE None

\* after find_first: seq_end is the query's end or the contig's length
bcf_get_byte_ranges_for_contig(f, ref_seq_index, q) ==
  LET contig == f.reference_sequences[ref_seq_index]
      seq_start == q.start
      seq_end == IF IsSome(q.end) THEN q.end ELSE contig.len
  IN  get_byte_ranges_for_reference_sequence_bgzf(
        f, bcf_max_seq_position(contig), ref_seq_index, seq_start, seq_end)

----------------------------------------------------------------------------
(* Search::search: the response of one request *)

EofUrl == [url |-> "data:BGZF_EOF", headers |-> None, class |-> Some(Body)]

\* Storage::range_url: the object's URL with a Range header of inclusive bounds
range_url(pos) ==
  [url |-> "object",
   headers |-> Some([first |-> pos.start, last |-> pos.end - 1]),
   class |-> pos.class]

Response(format, urls) == [format |-> format, urls |-> urls]

get_byte_ranges_for_header(f) == BytesPosition(0, f.header_end, None)

\* a Header-class response that ends with the EOF marker
search_header_with_eof(f) ==
  Ok(Response(f.format,
              <<range_url(with_class(get_byte_ranges_for_header(f), Header)), EofUrl>>))

\* Class::Header: the header position alone, tagged with its class
search_header(f) ==
  Ok(Response(f.format, <<range_url(with_class(get_byte_ranges_for_header(f), Header))>>))

\* the whole file with its trailing EOF block
get_byte_ranges_for_all_to_file_end(f) ==
  Ok(<<BytesPosition(0, head(f), None)>>)

\* the whole file: BAM up to its EOF block, BCF to its end
get_byte_ranges_for_all(f) ==
  Ok(<<BytesPosition(0, IF f.format = Bam THEN head(f) - BGZF_EOF_LEN ELSE head(f), None)>>)

\* an engine that appends no EOF marker
get_eof_marker_never(format) == <<>>

\* the EOF marker the async BAM engine appends; the BCF engine appends none
get_eof_marker(format) == IF format = Bam THEN <<EofUrl>> ELSE <<>>

\* Class::Body: the header position and the ranges, merged, then the EOF marker
build_response(f, byte_ranges) ==
  IF ~IsOk(byte_ranges) THEN byte_ranges
  ELSE LET positions == merge_all(<<get_byte_ranges_for_header(f)>> \o Unwrap(byte_ranges.value))
       IN  Ok(Response(f.format,
                       [i \in 1..Len(positions) |-> range_url(positions[i])]
                         \o get_eof_marker(f.format)))

InitSearch ==
  /\ file \in Files
  /\ query \in {q \in Queries : q.format = file.format}
  /\ spc = "start"
  /\ futures = {}
  /\ found = None
  /\ ranges = None
  /\ response = None
  \* the EditHeader and merge_all are idle
  /\ src = <<>>
  /\ reader = unread_reader
  /\ eh = <<>>
  /\ created = None
  /\ result = None
  /\ reread = None
  /\ mIn = <<>>
  /\ mOut = None
  /\ ConcIdle /\ TypesIdle /\ HeadersIdle /\ S3Idle /\ RouterIdle

SearchHeader ==
  /\ spc = "start" /\ ~query.blocking
  /\ query.class = Header
  /\ response' = Some(search_header(file))
  /\ spc' = "done"
  /\ UNCHANGED <<file, query, futures, found, ranges>>

SearchAll ==
  /\ spc = "start" /\ ~query.blocking
  /\ query.class = Body /\ query.reference_name = None
  /\ ranges' = Some(get_byte_ranges_for_all(file))
  /\ spc' = "respond"
  /\ UNCHANGED <<file, query, futures, found, response>>

\* BamSearch::get_byte_ranges_for_reference_name
SearchReadsByName ==
  /\ spc = "start" /\ ~query.blocking
  /\ query.class = Body /\ IsSome(query.reference_name) /\ query.format = Bam
  /\ ranges' = Some(get_byte_ranges_for_reference_name_reads(
                      file, Unwrap(query.reference_name), query))
  /\ spc' = "respond"
  /\ UNCHANGED <<file, query, futures, found, response>>

\* the blocking BamSearch on `*`; its response assembly is not modelled
SearchUnmappedBlocking ==
  /\ spc = "start" /\ query.blocking
  /\ ranges' = Some(blocking_get_byte_ranges_for_unmapped(file))
  /\ spc' = "done"
  /\ UNCHANGED <<file, query, futures, found, response>>

\* BcfSearch::get_byte_ranges_for_reference_name: one task per contig of the header
SpawnLookups ==
  /\ spc = "start" /\ ~query.blocking
  /\ query.class = Body /\ IsSome(query.reference_name) /\ query.format = Bcf
  /\ futures' = 1..Len(file.reference_sequences)
  /\ spc' = "lookup"
  /\ UNCHANGED <<file, query, found, ranges, response>>

\* find_first: the next task to complete; the first Some ends the search,
\* and NotFound is the answer when every task completed with None
PollLookup ==
  /\ spc = "lookup"
  /\ \/ /\ futures = {}
        /\ ranges' = Some(Err("NotFound"))
        /\ spc' = "respond"
        /\ UNCHANGED <<futures, found>>
     \/ \E i \in futures :
          LET value == lookup_task(file, i, Unwrap(query.reference_name))
          IN  /\ futures' = futures \ {i}
              /\ IF IsSome(value)
                 THEN found' = value /\ spc' = "resolve"
                 ELSE found' = found /\ spc' = spc
              /\ UNCHANGED ranges
  /\ UNCHANGED <<file, query, response>>

ResolveBcf ==
  /\ spc = "resolve"
  /\ ranges' = Some(bcf_get_byte_ranges_for_contig(file, Unwrap(found), query))
  /\ spc' = "respond"
  /\ UNCHANGED <<file, query, futures, found, response>>

BuildResponse ==
  /\ spc = "respond"
  /\ response' = Some(build_response(file, Unwrap(ranges)))
  /\ spc' = "done"
  /\ UNCHANGED <<file, query, futures, found, ranges>>

NextSearch ==
  \/ SearchHeader /\ UNCHANGED <<editVars, mergeVars, concVars, typeVars, headerVars, s3Vars, routerVars>>
  \/ SearchAll /\ UNCHANGED <<editVars, mergeVars, concVars, typeVars, headerVars, s3Vars, routerVars>>
  \/ SearchReadsByName /\ UNCHANGED <<editVars, mergeVars, concVars, typeVars, headerVars, s3Vars, routerVars>>
  \/ SearchUnmappedBlocking /\ UNCHANGED <<editVars, mergeVars, concVars, typeVars, headerVars, s3Vars, routerVars>>
  \/ SpawnLookups /\ UNCHANGED <<editVars, mergeVars, concVars, typeVars, headerVars, s3Vars, routerVars>>
  \/ PollLookup /\ UNCHANGED <<editVars, mergeVars, concVars, typeVars, headerVars, s3Vars, routerVars>>
  \/ ResolveBcf /\ UNCHANGED <<editVars, mergeVars, concVars, typeVars, headerVars, s3Vars, routerVars>>
  \/ BuildResponse /\ UNCHANGED <<editVars, mergeVars, concVars, typeVars, headerVars, s3Vars, routerVars>>

SpecSearch == InitSearch /\ [][NextSearch]_vars

----------------------------------------------------------------------------
(* Claims about search *)

ResponseOk == IsSome(response) /\ IsOk(Unwrap(response))
Urls == Unwrap(Unwrap(response).value).urls
IsRangeUrl(u) == IsSome(u.headers)
RangeOf(u) == Unwrap(u.headers)
HeaderUrl ==
  [url |-> "object",
   headers |-> Some([first |-> 0, last |-> file.header_end - 1]),
   class |-> Some(Header)]

RangesCanonical(urls) ==
  LET ranged == SelectSeq(urls, IsRangeUrl)
  IN  /\ \A i \in 1..Len(urls) : ~IsRangeUrl(urls[i]) => i = Len(urls)
      /\ ranged # <<>>
      /\ RangeOf(ranged[1]).first = 0
      /\ RangeOf(ranged[1]).last >= file.header_end - 1
      /\ \A i \in 1..Len(ranged) - 1 :
           RangeOf(ranged[i]).last + 1 < RangeOf(ranged[i + 1]).first
      /\ \A i \in 1..Len(ranged) : RangeOf(ranged[i]).first <= RangeOf(ranged[i]).last + 1

UnmappedQuery ==
  /\ query.format = Bam /\ query.class = Body /\ query.reference_name = Some("*")
  /\ IsSome(ranges)

\* every virtual position the claim counts as mentioned: the last linear-index
\* entry of each reference sequence and the end the metadata records
MentionedPositions(index) ==
  {index[r].intervals[Len(index[r].intervals)] :
     r \in {k \in 1..Len(index) : index[k].intervals # <<>>}}
  \cup {Unwrap(index[r].metadata).end_position :
          r \in {k \in 1..Len(index) : IsSome(index[k].metadata)}}

LinearEntries(index) ==
  UNION {{index[r].intervals[i] : i \in 1..Len(index[r].intervals)} : r \in 1..Len(index)}

Greatest(vps) == CHOOSE v \in vps : \A w \in vps : vp_le(w, v)

StartOr(vps, header_end) ==
  IF vps = {} THEN header_end ELSE Greatest(vps).compressed

\* C9 as stated: for `*` BAM search returns the single position
\* [S, file_size - BGZF_EOF_LEN) with S the compressed offset of the greatest
\* virtual position the index mentions (last linear-index entry, or the
\* unmapped start of the metadata if present), header_end if there is none.
C9_Original ==
  UnmappedQuery =>
    Unwrap(ranges) =
      Ok(<<BytesPosition(StartOr(MentionedPositions(file.index), file.header_end),
                         file.file_size - BGZF_EOF_LEN, None)>>)

\* C9, amended: for `*` the async BamSearch returns the single position
\* [S, file_size - BGZF_EOF_LEN) and the blocking BamSearch [S, file_size),
\* with S the compressed offset of the last linear-index entry of the last
\* reference sequence that has one (the greatest linear-index entry of a
\* coordinate-sorted file; the metadata is not read), header_end if no
\* reference sequence has a linear-index entry.
C9_UnmappedRange ==
  UnmappedQuery =>
    Unwrap(ranges) =
      Ok(<<BytesPosition(StartOr(LinearEntries(file.index), file.header_end),
                         IF query.blocking THEN file.file_size
                         ELSE file.file_size - BGZF_EOF_LEN,
                         None)>>)

C9_Witness ==
  /\ UnmappedQuery /\ ~query.blocking
  /\ Len(file.index) = 2
  /\ file.index[2].intervals = <<>>
  /\ IsSome(file.index[1].metadata)
  /\ Unwrap(Unwrap(ranges).value)[1].start = HeaderEnd + 2 * BlockGap

C9_WitnessNoEntry ==
  /\ UnmappedQuery
  /\ LinearEntries(file.index) = {}
  /\ Unwrap(Unwrap(ranges).value)[1].start = file.header_end

NameUnknown ==
  /\ IsSome(query.reference_name)
  /\ Unwrap(query.reference_name) # "*"
  /\ \A r \in 1..Len(file.reference_sequences) :
       file.reference_sequences[r].name # Unwrap(query.reference_name)

\* C10 as stated: a search whose reference name is neither `*` nor a
\* reference sequence of the header fails with NotFound and returns no URLs.
C10_Original ==
  IsSome(response) /\ NameUnknown => Unwrap(response) = Err("NotFound")

\* C10, amended: a Body-class search whose reference name is neither `*` nor
\* a reference sequence of the header fails with NotFound and returns no URLs.
C10_UnknownNameNotFound ==
  /\ IsSome(response) /\ NameUnknown /\ query.class = Body =>
       /\ Unwrap(response).tag = "Err"
       /\ Unwrap(response).err = "NotFound"
       /\ Unwrap(response).value = None
  /\ spc = "done" /\ NameUnknown /\ query.class = Body /\ ~query.blocking => IsSome(response)

C10_Witness ==
  /\ IsSome(response) /\ NameUnknown /\ query.class = Body
  /\ query.format = Bcf
  /\ Len(file.reference_sequences) = 2
  /\ Unwrap(response) = Err("NotFound")

----------------------------------------------------------------------------
(* Claims about the BCF lookup and the search of all reads *)

BcfNameQuery ==
  /\ query # <<>> /\ ~query.blocking
  /\ query.format = Bcf /\ query.class = Body /\ IsSome(query.reference_name)

\* the contigs of the header that carry the query's reference name
ContigsNamed ==
  {i \in 1..Len(file.reference_sequences) :
     file.reference_sequences[i].name = Unwrap(query.reference_name)}

\* C11: the lookup BcfSearch fans out as one task per contig does not depend
\* on scheduling: whatever order the tasks complete in, the contig selected is
\* the contig of that name and the byte ranges are those of that contig, and
\* NotFound is the result exactly when no contig has the name.
C11_LookupSchedulingIndependent ==
  BcfNameQuery =>
    /\ IsSome(found) => ContigsNamed = {Unwrap(found)}
    /\ spc = "resolve" => IsSome(found)
    /\ IsSome(ranges) =>
         /\ (ranges = Some(Err("NotFound"))) <=> (ContigsNamed = {})
         /\ \A i \in ContigsNamed :
              ranges = Some(bcf_get_byte_ranges_for_contig(file, i, query))

\* the second contig is found while the task of the first is still pending
C11_Witness ==
  /\ BcfNameQuery
  /\ found = Some(2)
  /\ futures = {1}
  /\ IsSome(ranges) /\ IsOk(Unwrap(ranges))

AllReadsQuery ==
  /\ query # <<>> /\ ~query.blocking
  /\ query.format = Bam /\ query.class = Body /\ query.reference_name = None

----------------------------------------------------------------------------
(* HtsGetFromStorage: concurrent searches over one shared Storage *)

MaxRequests == 2   \* search requests in flight at once

EditIdle ==
  /\ src = <<>> /\ reader = unread_reader /\ eh = <<>>
  /\ created = None /\ result = None /\ reread = None
MergeIdle == mIn = <<>> /\ mOut = None
SearchIdle ==
  /\ file = <<>> /\ query = <<>> /\ spc = "idle" /\ futures = {}
  /\ found = None /\ ranges = None /\ response = None

\* a storage holds one object per format
Storages ==
  {[f \in {Bam, Bcf} |-> StoredFile(f, index)] :
     index \in {<<ReferenceSequence(1, "gap", TRUE), ReferenceSequence(2, "touch", FALSE)>>,
                <<ReferenceSequence(1, "one", FALSE)>>}}

ConcQueries ==
  UNION {{Query(f, Header, None, None, None, FALSE),
          Query(f, Body, None, None, None, FALSE),
          Query(f, Body, Some(RefNames[1]), Some(Window), None, FALSE),
          Query(f, Body, Some(RefNames[2]), None, None, FALSE),
          Query(f, Body, Some(UnknownName), None, None, FALSE)} : f \in {Bam, Bcf}}
    \cup {Query(Bam, Body, Some("*"), None, None, FALSE)}

\* HtsGetFromStorage::search: a new search object for the request
new_task(q) ==
  [query |-> q, spc |-> "start", futures |-> {}, found |-> None,
   ranges |-> None, response |-> None]

\* the steps a search task can take next; it reads the storage and its own state
task_steps(st, t) ==
  LET q == t.query
      f == st[q.format]
  IN  CASE t.spc = "start" /\ q.class = Header ->
             {[t EXCEPT !.response = Some(search_header(f)), !.spc = "done"]}
        [] t.spc = "start" /\ q.class = Body /\ q.reference_name = None ->
             {[t EXCEPT !.ranges = Some(get_byte_ranges_for_all(f)), !.spc = "respond"]}
        [] t.spc = "start" /\ q.class = Body /\ IsSome(q.reference_name) /\ q.format = Bam ->
             {[t EXCEPT !.ranges = Some(get_byte_ranges_for_reference_name_reads(
                                          f, Unwrap(q.reference_name), q)),
                        !.spc = "respond"]}
        [] t.spc = "start" /\ q.class = Body /\ IsSome(q.reference_name) /\ q.format = Bcf ->
             {[t EXCEPT !.futures = 1..Len(f.reference_sequences), !.spc = "lookup"]}
        [] t.spc = "lookup" /\ t.futures = {} ->
             {[t EXCEPT !.ranges = Some(Err("NotFound")), !.spc = "respond"]}
        [] t.spc = "lookup" /\ t.futures # {} ->
             {LET value == lookup_task(f, i, Unwrap(q.reference_name))
              IN  [t EXCEPT !.futures = @ \ {i},
                            !.found = IF IsSome(value) THEN value ELSE @,
                            !.spc = IF IsSome(value) THEN "resolve" ELSE @] : i \in t.futures}
        [] t.spc = "resolve" ->
             {[t EXCEPT !.ranges = Some(bcf_get_byte_ranges_for_contig(f, Unwrap(t.found), q)),
                        !.spc = "respond"]}
        [] t.spc = "respond" ->
             {[t EXCEPT !.response = Some(build_response(f, Unwrap(t.ranges))), !.spc = "done"]}
        [] OTHER -> {}

\* one search object for all requests: the ranges computed for one are seen by all
schedule_shared_engine(ts, r, t) ==
  [x \in DOMAIN ts |-> IF x = r THEN t ELSE [ts[x] EXCEPT !.ranges = t.ranges]]

\* a step of request r changes the state of r's own search object
schedule(ts, r, t) == [ts EXCEPT ![r] = t]

InitConcurrent ==
  /\ storage \in Storages
  /\ tasks \in [1..MaxRequests -> {new_task(q) : q \in ConcQueries}]
  /\ EditIdle /\ MergeIdle /\ SearchIdle /\ TypesIdle /\ HeadersIdle /\ S3Idle /\ RouterIdle

\* the runtime polls one of the requests
StepRequest ==
  /\ \E r \in DOMAIN tasks : \E t \in task_steps(storage, tasks[r]) :
       tasks' = schedule(tasks, r, t)
  /\ UNCHANGED storage

NextConcurrent ==
  StepRequest /\ UNCHANGED <<editVars, mergeVars, searchVars, typeVars, headerVars, s3Vars, routerVars>>

SpecConcurrent == InitConcurrent /\ [][NextConcurrent]_vars

----------------------------------------------------------------------------
(* Claims about concurrent searches *)

RECURSIVE run_alone(_, _)
\* the responses of tasks run to the end with no other request in flight
run_alone(st, ts) ==
  IF \A t \in ts : t.spc = "done" THEN {t.response : t \in ts}
  ELSE run_alone(st, {t \in ts : t.spc = "done"}
                       \cup UNION {task_steps(st, t) : t \in {u \in ts : u.spc # "done"}})

CurrentTask ==
  [query |-> query, spc |-> spc, futures |-> futures, found |-> found,
   ranges |-> ranges, response |-> response]

\* the steps of a task are the steps of the search of one request
SearchStepsAgree ==
  [][~query.blocking => CurrentTask' \in task_steps([f \in {Bam, Bcf} |-> file], CurrentTask)]_searchVars

----------------------------------------------------------------------------
(* Interval (htsget-config/src/types.rs) *)

\* a u32 is held as its two 16-bit halves: the checker's integers end at 2^31 - 1
Half == 65536
u32(n) == [hi |-> n \div Half, lo |-> n % Half]
U32Max == [hi |-> Half - 1, lo |-> Half - 1]

\* a < b and a <= b on u32
u32_lt(a, b) == a.hi < b.hi \/ (a.hi = b.hi /\ a.lo < b.lo)
u32_le(a, b) == a = b \/ u32_lt(a, b)

\* the u32 values the model draws from: the values of the tests and the extremes
U32Values == {u32(0), u32(1), u32(9), u32(10), U32Max}
OptU32 == {None} \cup {Some(v) : v \in U32Values}

\* Interval::new
Interval_new(start, end) == [start |-> start, end |-> end]
\* Interval::default
Interval_default == Interval_new(None, None)

\* a contains whose end bound is inclusive
contains_closed_end(iv, value) ==
  /\ IsSome(iv.start) => u32_le(Unwrap(iv.start), value)
  /\ IsSome(iv.end) => u32_le(value, Unwrap(iv.end))

\* Interval::contains
contains(iv, value) ==
  CASE iv.start = None /\ iv.end = None -> TRUE
    [] iv.start = None /\ iv.end # None -> u32_lt(value, Unwrap(iv.end))
    [] iv.start # None /\ iv.end = None -> u32_le(Unwrap(iv.start), value)
    [] OTHER -> u32_le(Unwrap(iv.start), value) /\ u32_lt(value, Unwrap(iv.end))

IoError(kind) == Err("io::Error(" \o kind \o ")")

\* u32::checked_add(1), or an io::Error of kind Other
checked_add_one(value) ==
  IF value = U32Max THEN IoError("Other")
  ELSE IF value.lo = Half - 1 THEN Ok([hi |-> value.hi + 1, lo |-> 0])
  ELSE Ok([hi |-> value.hi, lo |-> value.lo + 1])

\* a Position::try_from that takes zero as well
Position_try_from_zero(value) == Ok(value)

\* noodles Position::try_from(usize): a Position is not zero
Position_try_from(value) == IF value = u32(0) THEN IoError("Other") ELSE Ok(value)

\* Interval::convert_position: convert_fn, then usize::try_from, then Position::try_from
convert_position(value, convert_fn(_)) ==
  LET converted == convert_fn(value)
  IN  IF ~IsOk(converted) THEN converted ELSE Position_try_from(Unwrap(converted.value))

\* Interval::convert_start
convert_start(start) == convert_position(start, checked_add_one)
\* Interval::convert_end
convert_end(end) == convert_position(end, Ok)

\* noodles Interval: 1-based, closed, either bound may be absent
NoodlesInterval(start, end) == [start |-> start, end |-> end]

\* Interval::into_one_based; `?` returns the first error
into_one_based(iv) ==
  LET s == IF IsSome(iv.start) THEN convert_start(Unwrap(iv.start)) ELSE Ok(u32(1))
      e == IF IsSome(iv.end) THEN convert_end(Unwrap(iv.end)) ELSE Ok(u32(1))
  IN  IF ~IsOk(s) THEN s
      ELSE IF ~IsOk(e) THEN e
      ELSE Ok(NoodlesInterval(IF IsSome(iv.start) THEN s.value ELSE None,
                              IF IsSome(iv.end) THEN e.value ELSE None))

\* impl From<io::Error> for HtsGetError, as `?` applies it
from_io_error(r) == IF IsOk(r) THEN r ELSE Err("IoError")

InitInterval ==
  /\ interval = Interval_default
  /\ qres = None
  /\ qry = <<>> /\ qprev = <<>> /\ qop = <<>>
  /\ EditIdle /\ MergeIdle /\ SearchIdle /\ ConcIdle /\ HeadersIdle /\ S3Idle /\ RouterIdle

IntervalNew ==
  /\ \E start \in OptU32, end \in OptU32 : interval' = Interval_new(start, end)
  /\ qres' = None
  /\ UNCHANGED <<qry, qprev, qop>>

IntervalContains ==
  /\ \E value \in U32Values :
       qres' = Some([op |-> "contains", arg |-> value, value |-> contains(interval, value)])
  /\ UNCHANGED <<qry, qprev, qop, interval>>

\* into_one_based in a function that returns Result<_, HtsGetError>
IntervalIntoOneBased ==
  /\ qres' = Some([op |-> "into_one_based", arg |-> u32(0),
                   value |-> from_io_error(into_one_based(interval))])
  /\ UNCHANGED <<qry, qprev, qop, interval>>

NextInterval ==
  \/ IntervalNew /\ UNCHANGED <<editVars, mergeVars, searchVars, concVars, headerVars, s3Vars, routerVars>>
  \/ IntervalContains /\ UNCHANGED <<editVars, mergeVars, searchVars, concVars, headerVars, s3Vars, routerVars>>
  \/ IntervalIntoOneBased /\ UNCHANGED <<editVars, mergeVars, searchVars, concVars, headerVars, s3Vars, routerVars>>

SpecInterval == InitInterval /\ [][NextInterval]_vars

----------------------------------------------------------------------------
(* Claims about Interval *)

Called(op) == IsSome(qres) /\ Unwrap(qres).op = op

\* b = a + 1 as numbers
PlusOne(a, b) ==
  \/ a.lo < Half - 1 /\ b = [hi |-> a.hi, lo |-> a.lo + 1]
  \/ a.lo = Half - 1 /\ b = [hi |-> a.hi + 1, lo |-> 0]

\* C15: contains(v) is true iff start <= v < end, an absent start being no
\* lower bound and an absent end no upper bound, for every v and every
\* combination of present and absent bounds.
C15_Contains ==
  Called("contains") =>
    LET v == Unwrap(qres).arg
    IN  Unwrap(qres).value =
          ((interval.start = None \/ ~u32_lt(v, Unwrap(interval.start)))
             /\ (interval.end = None \/ ~u32_le(Unwrap(interval.end), v)))

\* the end itself is not contained
C15_Witness ==
  /\ Called("contains")
  /\ interval = Interval_new(Some(u32(0)), Some(u32(10)))
  /\ Unwrap(qres).arg = u32(10)
  /\ Unwrap(qres).value = FALSE

\* C16 as stated: into_one_based turns a present start s into s + 1, keeps a
\* present end e, keeps absent bounds absent, and returns an InvalidInput error
\* instead of an interval when s + 1 overflows u32.
C16_Original ==
  Called("into_one_based") =>
    IF interval.start = Some(U32Max)
    THEN Unwrap(qres).value = Err("InvalidInput")
    ELSE /\ IsOk(Unwrap(qres).value)
         /\ LET one_based == Unwrap(Unwrap(qres).value.value)
            IN  /\ IsSome(one_based.start) <=> IsSome(interval.start)
                /\ IsSome(interval.start) =>
                     PlusOne(Unwrap(interval.start), Unwrap(one_based.start))
                /\ one_based.end = interval.end

----------------------------------------------------------------------------
(* Format, Query (htsget-config/src/types.rs) *)

MaxBuilders == 2   \* builder calls on one Query

Cram == "CRAM"
Vcf == "VCF"
Formats == {Bam, Cram, Vcf, Bcf}

\* a file ending that leaves out the compression suffix
file_ending_uncompressed(format) ==
  CASE format = Bam -> <<".", "b", "a", "m">>
    [] format = Cram -> <<".", "c", "r", "a", "m">>
    [] format = Vcf -> <<".", "v", "c", "f">>
    [] format = Bcf -> <<".", "b", "c", "f">>

\* Format::file_ending; a string is the sequence of its characters
file_ending(format) ==
  CASE format = Bam -> <<".", "b", "a", "m">>
    [] format = Cram -> <<".", "c", "r", "a", "m">>
    [] format = Vcf -> <<".", "v", "c", "f", ".", "g", "z">>
    [] format = Bcf -> <<".", "b", "c", "f">>

\* Format::index_file_ending
index_file_ending(format) ==
  CASE format = Bam -> <<".", "b", "a", "m", ".", "b", "a", "i">>
    [] format = Cram -> <<".", "c", "r", "a", "m", ".", "c", "r", "a", "i">>
    [] format = Vcf -> <<".", "v", "c", "f", ".", "g", "z", ".", "t", "b", "i">>
    [] format = Bcf -> <<".", "b", "c", "f", ".", "c", "s", "i">>

\* ObjectType; Crypt4GH exists in builds with the crypt4gh feature, which is
\* the build modelled: without it every object is Regular and takes that path
Regular == "Regular"
Crypt4GH == "Crypt4GH"
is_crypt4gh(object_type) == object_type = Crypt4GH

\* fmt_file without the Crypt4GH branch
fmt_file_plain(format, q) == q.id \o file_ending(format)

\* Format::fmt_file
fmt_file(format, q) ==
  LET id == q.id \o file_ending(format)
  IN  IF is_crypt4gh(q.object_type) THEN id \o <<".", "c", "4", "g", "h">> ELSE id

\* Format::fmt_index
fmt_index(format, id) == id \o index_file_ending(format)

\* Fields / Tags: Tagged(All) or List(set)
Tagged_All == [tagged |-> "All", list |-> {}]
List(set) == [tagged |-> "", list |-> set]

\* Request::new_with_id
Request_new_with_id(id) == [path |-> id, query |-> <<>>, headers |-> <<>>]

\* Query::new
Query_new(id, format, request, object_type) ==
  [id |-> id, format |-> format, class |-> Body, reference_name |-> None,
   interval |-> Interval_default, fields |-> Tagged_All, tags |-> Tagged_All,
   no_tags |-> None, request |-> request, object_type |-> object_type]

Query_with_id(q, id) == [q EXCEPT !.id = id]
Query_with_format(q, format) == [q EXCEPT !.format = format]
Query_with_class(q, class) == [q EXCEPT !.class = class]
Query_with_reference_name(q, reference_name) == [q EXCEPT !.reference_name = Some(reference_name)]

\* a with_start that builds the interval anew
Query_with_start_anew(q, start) == [q EXCEPT !.interval = Interval_new(Some(start), None)]

Query_with_start(q, start) == [q EXCEPT !.interval.start = Some(start)]
Query_with_end(q, end) == [q EXCEPT !.interval.end = Some(end)]
Query_with_fields(q, fields) == [q EXCEPT !.fields = fields]
Query_with_tags(q, tags) == [q EXCEPT !.tags = tags]
\* no_tags.into_iter().map(..).collect() into a HashSet
Query_with_no_tags(q, no_tags) ==
  [q EXCEPT !.no_tags = Some({no_tags[i] : i \in 1..Len(no_tags)})]
Query_with_object_type(q, object_type) == [q EXCEPT !.object_type = object_type]

QueryIds == {<<"i", "d">>, <<"N", "A">>}

InitQuery ==
  /\ \E format \in Formats, object_type \in {Regular, Crypt4GH} :
       qry = Query_new(<<"i", "d">>, format, Request_new_with_id(<<"i", "d">>), object_type)
  /\ qprev = <<>>
  /\ qop = [name |-> "new", arg |-> <<>>, n |-> 0]
  /\ interval = <<>>
  /\ qres = None
  /\ EditIdle /\ MergeIdle /\ SearchIdle /\ ConcIdle /\ HeadersIdle /\ S3Idle /\ RouterIdle

\* a builder call: q is the Query it returns
Built(name, arg, q) ==
  /\ qop.n < MaxBuilders
  /\ qprev' = qry
  /\ qry' = q
  /\ qop' = [name |-> name, arg |-> arg, n |-> qop.n + 1]
  /\ qres' = None
  /\ UNCHANGED interval

WithId == \E id \in QueryIds : Built("with_id", id, Query_with_id(qry, id))
WithFormat == \E format \in Formats : Built("with_format", format, Query_with_format(qry, format))
WithClass == \E class \in {Header, Body} : Built("with_class", class, Query_with_class(qry, class))
WithReferenceName ==
  \E name \in {<<"c", "h", "r", "1">>} :
    Built("with_reference_name", name, Query_with_reference_name(qry, name))
WithStart == \E start \in {u32(0), u32(10)} : Built("with_start", start, Query_with_start(qry, start))
WithEnd == \E end \in {u32(0), u32(9)} : Built("with_end", end, Query_with_end(qry, end))
WithFields ==
  \E fields \in {List({"QNAME", "FLAG"})} : Built("with_fields", fields, Query_with_fields(qry, fields))
WithTags == \E tags \in {List({"RG"})} : Built("with_tags", tags, Query_with_tags(qry, tags))
WithNoTags ==
  \E no_tags \in {<<"RG", "OQ">>} : Built("with_no_tags", no_tags, Query_with_no_tags(qry, no_tags))
WithObjectType ==
  \E object_type \in {Regular, Crypt4GH} :
    Built("with_object_type", object_type, Query_with_object_type(qry, object_type))

\* blocking BamSearch::get_keys_from_id: <<bam_key, bai_key>>
get_keys_from_id(id) ==
  LET bam_key == id \o <<".", "b", "a", "m">>
  IN  <<bam_key, bam_key \o <<".", "b", "a", "i">>>>

\* the keys a search presents to storage for the Query
QueryKeys ==
  /\ qres' = Some([op |-> "keys", file |-> fmt_file(qry.format, qry),
                   index |-> fmt_index(qry.format, qry.id),
                   blocking |-> get_keys_from_id(qry.id)])
  /\ UNCHANGED <<qry, qprev, qop, interval>>

\* Format::gzi_index_file_ending
gzi_index_file_ending(format) ==
  CASE format = Bam -> Ok(<<".", "b", "a", "m", ".", "g", "z", "i">>)
    [] format = Cram -> Err(IoError("Other"))
    [] format = Vcf -> Ok(<<".", "v", "c", "f", ".", "g", "z", ".", "g", "z", "i">>)
    [] format = Bcf -> Ok(<<".", "b", "c", "f", ".", "g", "z", "i">>)

\* str::ends_with
ends_with(s, suffix) ==
  /\ Len(s) >= Len(suffix)
  /\ SubSeq(s, Len(s) - Len(suffix) + 1, Len(s)) = suffix

\* KeyType::from_ending; the Vcf index ending is tested twice
from_ending(key) ==
  IF \/ ends_with(key, index_file_ending(Bam))
     \/ ends_with(key, index_file_ending(Vcf))
     \/ ends_with(key, index_file_ending(Cram))
     \/ ends_with(key, index_file_ending(Vcf))
     \/ ends_with(key, <<".", "b", "a", "m", ".", "g", "z", "i">>)
     \/ ends_with(key, <<".", "v", "c", "f", ".", "g", "z", ".", "g", "z", "i">>)
     \/ ends_with(key, <<".", "b", "c", "f", ".", "g", "z", "i">>)
    THEN "Index"
    ELSE "File"

\* the data, index and GZI keys of the Query's id in a format
KeysOfFormat(format) ==
  {qry.id \o file_ending(format), fmt_index(format, qry.id)}
    \cup (IF IsOk(gzi_index_file_ending(format))
            THEN {qry.id \o gzi_index_file_ending(format).value[1]}
            ELSE {})

\* KeyType::from_ending on a key of the Query's id
KeyTypeFromEnding ==
  /\ \E format \in Formats : \E key \in KeysOfFormat(format) :
       qres' = Some([op |-> "from_ending", key |-> key, key_type |-> from_ending(key)])
  /\ UNCHANGED <<qry, qprev, qop, interval>>

NextQuery ==
  \/ KeyTypeFromEnding /\ UNCHANGED <<editVars, mergeVars, searchVars, concVars, headerVars, s3Vars, routerVars>>
  \/ WithId /\ UNCHANGED <<editVars, mergeVars, searchVars, concVars, headerVars, s3Vars, routerVars>>
  \/ WithFormat /\ UNCHANGED <<editVars, mergeVars, searchVars, concVars, headerVars, s3Vars, routerVars>>
  \/ WithClass /\ UNCHANGED <<editVars, mergeVars, searchVars, concVars, headerVars, s3Vars, routerVars>>
  \/ WithReferenceName /\ UNCHANGED <<editVars, mergeVars, searchVars, concVars, headerVars, s3Vars, routerVars>>
  \/ WithStart /\ UNCHANGED <<editVars, mergeVars, searchVars, concVars, headerVars, s3Vars, routerVars>>
  \/ WithEnd /\ UNCHANGED <<editVars, mergeVars, searchVars, concVars, headerVars, s3Vars, routerVars>>
  \/ WithFields /\ UNCHANGED <<editVars, mergeVars, searchVars, concVars, headerVars, s3Vars, routerVars>>
  \/ WithTags /\ UNCHANGED <<editVars, mergeVars, searchVars, concVars, headerVars, s3Vars, routerVars>>
  \/ WithNoTags /\ UNCHANGED <<editVars, mergeVars, searchVars, concVars, headerVars, s3Vars, routerVars>>
  \/ WithObjectType /\ UNCHANGED <<editVars, mergeVars, searchVars, concVars, headerVars, s3Vars, routerVars>>
  \/ QueryKeys /\ UNCHANGED <<editVars, mergeVars, searchVars, concVars, headerVars, s3Vars, routerVars>>

SpecQuery == InitQuery /\ [][NextQuery]_vars

----------------------------------------------------------------------------
(* Claims about Query and the storage keys *)

\* C14 as stated: every Interval a Query holds after with_start / with_end has
\* start <= end when both bounds are present.
C14_Original ==
  (qry.interval.start # None /\ qry.interval.end # None)
    => u32_le(qry.interval.start[1], qry.interval.end[1])

EndsWith(s, suffix) ==
  /\ Len(s) >= Len(suffix)
  /\ SubSeq(s, Len(s) - Len(suffix) + 1, Len(s)) = suffix

StartsWith(s, prefix) ==
  /\ Len(s) >= Len(prefix)
  /\ SubSeq(s, 1, Len(prefix)) = prefix

KeysOf == qres[1]
KeysPresented == qres # None /\ qres[1].op = "keys"

DataEnding ==
  [f \in Formats |->
     CASE f = Bam -> <<".", "b", "a", "m">>
       [] f = Cram -> <<".", "c", "r", "a", "m">>
       [] f = Vcf -> <<".", "v", "c", "f", ".", "g", "z">>
       [] f = Bcf -> <<".", "b", "c", "f">>]

IndexEnding ==
  [f \in Formats |->
     CASE f = Bam -> <<".", "b", "a", "m", ".", "b", "a", "i">>
       [] f = Cram -> <<".", "c", "r", "a", "m", ".", "c", "r", "a", "i">>
       [] f = Vcf -> <<".", "v", "c", "f", ".", "g", "z", ".", "t", "b", "i">>
       [] f = Bcf -> <<".", "b", "c", "f", ".", "c", "s", "i">>]

C4ghSuffix == <<".", "c", "4", "g", "h">>

C18_Original ==
  KeysPresented =>
    /\ EndsWith(KeysOf.file, C4ghSuffix) <=> is_crypt4gh(qry.object_type)
    /\ EndsWith(KeysOf.index, C4ghSuffix) <=> is_crypt4gh(qry.object_type)

\* C18 amended: for a Crypt4GH object the data key is the id, the file ending
\* and .c4gh, and for any other object it has no .c4gh suffix; the index key
\* never has the .c4gh suffix, whatever the object type.
C18_Crypt4GHSuffix ==
  KeysPresented =>
    /\ is_crypt4gh(qry.object_type)
         => KeysOf.file = qry.id \o DataEnding[qry.format] \o C4ghSuffix
    /\ ~is_crypt4gh(qry.object_type) => ~EndsWith(KeysOf.file, C4ghSuffix)
    /\ ~EndsWith(KeysOf.index, C4ghSuffix)
    /\ KeysOf.index = qry.id \o IndexEnding[qry.format]

C18_Witness ==
  /\ KeysPresented
  /\ qry.object_type = Crypt4GH
  /\ qry.format = Bam
  /\ KeysOf.file = <<"i", "d", ".", "b", "a", "m", ".", "c", "4", "g", "h">>
  /\ KeysOf.index = <<"i", "d", ".", "b", "a", "m", ".", "b", "a", "i">>

QueryFieldNames ==
  {"id", "format", "class", "reference_name", "interval", "fields", "tags",
   "no_tags", "request", "object_type"}

\* every field but the named one is as before the builder call
OnlyChanged(field) == \A g \in QueryFieldNames \ {field} : qry[g] = qprev[g]

BuilderSets(name, field, value) ==
  qop.name = name => (qry[field] = value /\ OnlyChanged(field))

\* C19: a new Query has class Body, no reference name and an interval without
\* bounds; each builder sets its own field to its argument and leaves every
\* other field as it was (with_start and with_end each leave the other bound).
C19_Builders ==
  /\ qop.name = "new" =>
       /\ qry.class = Body
       /\ qry.reference_name = None
       /\ qry.interval = [start |-> None, end |-> None]
  /\ BuilderSets("with_id", "id", qop.arg)
  /\ BuilderSets("with_format", "format", qop.arg)
  /\ BuilderSets("with_class", "class", qop.arg)
  /\ BuilderSets("with_reference_name", "reference_name", Some(qop.arg))
  /\ BuilderSets("with_start", "interval",
                 [start |-> Some(qop.arg), end |-> qprev.interval.end])
  /\ BuilderSets("with_end", "interval",
                 [start |-> qprev.interval.start, end |-> Some(qop.arg)])
  /\ BuilderSets("with_fields", "fields", qop.arg)
  /\ BuilderSets("with_tags", "tags", qop.arg)
  /\ BuilderSets("with_no_tags", "no_tags", Some({"RG", "OQ"}))
  /\ BuilderSets("with_object_type", "object_type", qop.arg)

C19_Witness ==
  /\ qop.name = "with_start"
  /\ qop.n = MaxBuilders
  /\ qprev.interval = [start |-> None, end |-> Some(u32(9))]
  /\ qry.interval = [start |-> Some(u32(10)), end |-> Some(u32(9))]

----------------------------------------------------------------------------
(* Headers (htsget-config/src/types.rs) *)

MaxInserts == 3   \* header values inserted or appended

\* keys of the BTreeMap<String, String>; a String is the sequence of its characters
HeaderKeys == {<<"R">>, <<"r">>}
HeaderStrings == {<<>>, <<"a">>, <<"b">>}
\* the bytes of a HeaderValue; "0x80" stands for a byte that is not visible ASCII
HeaderValues == HeaderStrings \cup {<<"0x80">>}

\* BTreeMap::new(): no key holds a value
Headers_default == [k \in HeaderKeys |-> None]

\* Headers::insert: entry(key).or_default(), then push onto the entry
insert(h, key, value) ==
  LET entry == IF h[key] = None THEN <<>> ELSE h[key][1]
  IN  IF entry = <<>>
        THEN [h EXCEPT ![key] = Some(entry \o value)]
        ELSE [h EXCEPT ![key] = Some(entry \o <<",", " ">> \o value)]

\* Headers::with_header
with_header(h, key, value) == insert(h, key, value)

\* HeaderName::from_str(..).to_string(): header names are held in lower case
HeaderName_to_string(name) == [i \in 1..Len(name) |-> IF name[i] = "R" THEN "r" ELSE name[i]]

\* HeaderValue::to_str: fails on a byte that is not visible ASCII
to_str(value) ==
  IF \E i \in 1..Len(value) : value[i] = "0x80" THEN Err("ToStrError") ELSE Ok(value)

\* impl TryFrom<&HeaderMap> for Headers: the try_fold from entry i on
RECURSIVE try_fold(_, _, _)
try_fold(acc, hm, i) ==
  IF i > Len(hm) THEN Ok(acc)
  ELSE IF to_str(hm[i].value).tag # "Ok" THEN Err("ParseError")
  ELSE try_fold(with_header(acc, HeaderName_to_string(hm[i].name), to_str(hm[i].value).value[1]),
                hm, i + 1)

Headers_try_from(hm) == try_fold(Headers_default, hm, 1)

InitHeaders ==
  /\ headers = Ok(Headers_default)
  /\ hlog = <<>>
  /\ EditIdle /\ MergeIdle /\ SearchIdle /\ ConcIdle /\ TypesIdle /\ S3Idle /\ RouterIdle

InsertHeader ==
  /\ headers.tag = "Ok"
  /\ Len(hlog) < MaxInserts
  /\ \E key \in HeaderKeys, value \in HeaderStrings :
       /\ headers' = Ok(insert(headers.value[1], key, value))
       /\ hlog' = Append(hlog, [op |-> "insert", key |-> key, value |-> value])

WithHeader ==
  /\ headers.tag = "Ok"
  /\ Len(hlog) < MaxInserts
  /\ \E key \in HeaderKeys, value \in HeaderStrings :
       /\ headers' = Ok(with_header(headers.value[1], key, value))
       /\ hlog' = Append(hlog, [op |-> "with_header", key |-> key, value |-> value])

\* (&header_map).try_into() for an http HeaderMap built by the appends hm
TryFromHeaderMap ==
  /\ hlog = <<>>
  /\ \E n \in 1..MaxInserts :
       \E hm \in [1..n -> [name : HeaderKeys, value : HeaderValues]] :
         /\ headers' = Headers_try_from(hm)
         /\ hlog' = [i \in 1..n |-> [op |-> "append", key |-> HeaderName_to_string(hm[i].name),
                                     value |-> hm[i].value]]

NextHeaders ==
  \/ InsertHeader /\ UNCHANGED <<editVars, mergeVars, searchVars, concVars, typeVars, s3Vars, routerVars>>
  \/ WithHeader /\ UNCHANGED <<editVars, mergeVars, searchVars, concVars, typeVars, s3Vars, routerVars>>
  \/ TryFromHeaderMap /\ UNCHANGED <<editVars, mergeVars, searchVars, concVars, typeVars, s3Vars, routerVars>>

SpecHeaders == InitHeaders /\ [][NextHeaders]_vars

----------------------------------------------------------------------------
(* Claims about Headers *)

\* the values put under key, in the order they were put
RECURSIVE ValuesUnder(_, _)
ValuesUnder(log, key) ==
  IF log = <<>> THEN <<>>
  ELSE IF log[1].key = key THEN <<log[1].value>> \o ValuesUnder(Tail(log), key)
  ELSE ValuesUnder(Tail(log), key)

RECURSIVE JoinComma(_)
JoinComma(values) ==
  IF Len(values) = 1 THEN values[1]
  ELSE values[1] \o <<",", " ">> \o JoinComma(Tail(values))

\* C20 as stated: after v1, ..., vn were inserted or appended under one key in
\* that order, the value stored under the key is v1, ..., vn joined by ", ".
C20_Original ==
  headers.tag = "Ok" =>
    \A key \in HeaderKeys :
      ValuesUnder(hlog, key) # <<>>
        => headers.value[1][key] = Some(JoinComma(ValuesUnder(hlog, key)))

\* the stored value is the comma-joined one whenever the first value put under
\* the key was not the empty string
JoinedAfterNonEmptyFirst ==
  headers.tag = "Ok" =>
    \A key \in HeaderKeys :
      (ValuesUnder(hlog, key) # <<>> /\ ValuesUnder(hlog, key)[1] # <<>>)
        => headers.value[1][key] = Some(JoinComma(ValuesUnder(hlog, key)))

----------------------------------------------------------------------------
(* S3Storage (htsget-search/src/storage/s3.rs) *)

\* BytesPosition::new, with Option bounds: start inclusive, end exclusive
BytesPosition_new(start, end, class) == [start |-> start, end |-> end, class |-> class]

\* a conversion that keeps the exclusive end
BytesRange_from_exclusive(pos) == [start |-> pos.start, end |-> pos.end]

\* BytesRange::from(&BytesPosition): the end becomes inclusive
BytesRange_from(pos) ==
  [start |-> pos.start,
   end |-> IF pos.end = None THEN None ELSE Some(pos.end[1] - 1)]

\* String::from(&BytesRange): empty when the range has no bound
String_from(range) ==
  IF range.start = None /\ range.end = None THEN <<>>
  ELSE <<"b", "y", "t", "e", "s", "=">>
         \o (IF range.start = None THEN <<"0">> ELSE to_string(range.start[1]))
         \o <<"-">>
         \o (IF range.end = None THEN <<>> ELSE to_string(range.end[1]))

\* StorageError
KeyNotFound(key) == [kind |-> "KeyNotFound", key |-> key]
AwsS3Error(key) == [kind |-> "AwsS3Error", key |-> key]
StorageIoError == [kind |-> "IoError", key |-> ""]

\* Retrieval
Immediate(class) == [retrieval |-> "Immediate", class |-> class]
Delayed(class) == [retrieval |-> "Delayed", class |-> class]

\* the restore header, as the sequence of its parts; `contains` looks for one part
OngoingFalse == "ongoing-request=\"false\""
RestoreHeaders ==
  {<<"ongoing-request=\"true\"">>,
   <<OngoingFalse, ", ", "expiry-date=\"Fri, 21 Dec 2012 00:00:00 GMT\"">>}

\* the objects a bucket may hold under the key; exists = FALSE: no object
S3Objects ==
  [exists : {TRUE},
   storage_class : {None, Some("STANDARD"), Some("GLACIER"), Some("DEEP_ARCHIVE"),
                    Some("INTELLIGENT_TIERING")},
   archive_status : {None, Some("ARCHIVE_ACCESS")},
   restore : {None} \cup {Some(r) : r \in RestoreHeaders},
   content_length : {6, -1}]
  \cup {[exists |-> FALSE, storage_class |-> None, archive_status |-> None,
         restore |-> None, content_length |-> 0]}

\* HeadObjectOutput of an object
HeadObjectOutput(obj) ==
  [storage_class |-> obj.storage_class, archive_status |-> obj.archive_status,
   restore |-> obj.restore, content_length |-> obj.content_length]

\* what S3 may answer to HeadObject: the output, or a service error by its code
HeadObjectOutcomes(obj) ==
  IF obj.exists THEN {Ok(HeadObjectOutput(obj)), Err("Unhandled")}
  ELSE {Err("NotFound"), Err("Unhandled")}

\* what S3 may answer to GetObject (the object may be gone by then)
GetObjectOutcomes == {Ok("body"), Err("NoSuchKey"), Err("InvalidObjectState"), Err("Unhandled")}

\* what presigning may give
PresignOutcomes == {Ok("uri"), Err("Unhandled")}

\* S3Storage::s3_head: map_err on the HeadObject service error
s3_head(key, head_outcome) ==
  IF IsOk(head_outcome) THEN head_outcome
  ELSE IF head_outcome.err = "NotFound" THEN Err(KeyNotFound(key))
  ELSE Err(AwsS3Error(key))

\* a check that takes any restore header as a finished restore
check_restore_header_any(restore_header, class) ==
  IF restore_header # None THEN Immediate(class) ELSE Delayed(class)

\* S3Storage::check_restore_header
check_restore_header(restore_header, class) ==
  IF /\ restore_header # None
     /\ \E i \in 1..Len(restore_header[1]) : restore_header[1][i] = OngoingFalse
    THEN Immediate(class)
    ELSE Delayed(class)

\* S3Storage::get_retrieval_type
get_retrieval_type(key, head_outcome) ==
  LET head_result == s3_head(key, head_outcome)
      head_output == head_result.value[1]
      class == IF head_output.storage_class = None THEN "STANDARD"
               ELSE head_output.storage_class[1]
  IN  IF ~IsOk(head_result) THEN head_result
      ELSE Ok(IF class \in {"DEEP_ARCHIVE", "GLACIER"}
                THEN check_restore_header(head_output.restore, class)
              ELSE IF class = "INTELLIGENT_TIERING"
                THEN IF head_output.archive_status # None
                       THEN check_restore_header(head_output.restore, class)
                       ELSE Immediate(class)
              ELSE Immediate(class))

\* the GetObject request builder for the key
GetObject(key) == [op |-> "GetObject", key |-> key, range |-> None]
HeadObject(key) == [op |-> "HeadObject", key |-> key, range |-> None]

\* S3Storage::apply_range
apply_range(builder, range) ==
  LET r == String_from(BytesRange_from(range))
  IN  IF r = <<>> THEN builder ELSE [builder EXCEPT !.range = Some(r)]

\* a map_get_error that knows no absent key
map_get_error_all_aws(key, code) == AwsS3Error(key)

\* S3Storage::map_get_error, on the code of the service error
map_get_error(key, code) ==
  IF code = "NoSuchKey" THEN KeyNotFound(key) ELSE AwsS3Error(key)

\* S3Storage::get_content: <<requests sent, Result>>
get_content(key, range, head_outcome, get_outcome) ==
  LET retrieval == get_retrieval_type(key, head_outcome)
      request == apply_range(GetObject(key), range)
  IN  IF ~IsOk(retrieval) THEN <<<<HeadObject(key)>>, retrieval>>
      ELSE IF retrieval.value[1].retrieval = "Delayed"
        THEN <<<<HeadObject(key)>>, Err(AwsS3Error(key))>>
      ELSE <<<<HeadObject(key), request>>,
             IF IsOk(get_outcome) THEN get_outcome
             ELSE Err(map_get_error(key, get_outcome.err))>>

\* S3Storage::s3_presign_url: the URL carries the key and the range it signs
s3_presign_url(key, range, presign_outcome) ==
  IF IsOk(presign_outcome)
    THEN Ok(apply_range(GetObject(key), range))
    ELSE Err(map_get_error(key, presign_outcome.err))

\* RangeUrlOptions::apply: the Range header and the class of the position
RangeUrlOptions_apply(range, url) ==
  LET r == String_from(BytesRange_from(range))
  IN  [url |-> url,
       headers |-> IF r = <<>> THEN None ELSE Some([Range |-> r]),
       class |-> range.class]

\* Storage::range_url for S3Storage
S3Storage_range_url(key, range, presign_outcome) ==
  LET presigned_url == s3_presign_url(key, range, presign_outcome)
  IN  IF ~IsOk(presigned_url) THEN presigned_url
      ELSE Ok(RangeUrlOptions_apply(range, presigned_url.value[1]))

\* Storage::head for S3Storage
S3Storage_head(key, head_outcome) ==
  LET head_result == s3_head(key, head_outcome)
  IN  IF ~IsOk(head_result) THEN head_result
      ELSE IF head_result.value[1].content_length < 0 THEN Err(StorageIoError)
      ELSE Ok(head_result.value[1].content_length)

S3Keys == {"key2"}
S3Ranges ==
  {BytesPosition_new(None, None, None),
   BytesPosition_new(Some(7), Some(9), None),
   BytesPosition_new(Some(7), None, None),
   BytesPosition_new(Some(0), Some(1), Some(Header)),
   BytesPosition_new(Some(99), Some(1000), Some(Body))}

InitS3 ==
  /\ s3 \in S3Objects
  /\ s3sent = <<>>
  /\ s3out = None
  /\ EditIdle /\ MergeIdle /\ SearchIdle /\ ConcIdle /\ TypesIdle /\ HeadersIdle /\ RouterIdle

S3Call(op, key, range, head_outcome, get_outcome, sent, res) ==
  /\ s3sent' = sent
  /\ s3out' = Some([op |-> op, key |-> key, range |-> range, head_outcome |-> head_outcome,
                    get_outcome |-> get_outcome, result |-> res])
  /\ UNCHANGED s3

\* Storage::get (create_stream_reader over get_content)
S3Get ==
  \E key \in S3Keys, range \in S3Ranges, head_outcome \in HeadObjectOutcomes(s3),
     get_outcome \in GetObjectOutcomes :
    LET content == get_content(key, range, head_outcome, get_outcome)
    IN  S3Call("get", key, range, head_outcome, get_outcome, content[1], content[2])

S3RangeUrl ==
  \E key \in S3Keys, range \in S3Ranges, presign_outcome \in PresignOutcomes :
    S3Call("range_url", key, range, None, presign_outcome, <<>>,
           S3Storage_range_url(key, range, presign_outcome))

S3Head ==
  \E key \in S3Keys, head_outcome \in HeadObjectOutcomes(s3) :
    S3Call("head", key, None, head_outcome, None, <<HeadObject(key)>>,
           S3Storage_head(key, head_outcome))

S3GetRetrievalType ==
  \E key \in S3Keys, head_outcome \in HeadObjectOutcomes(s3) :
    S3Call("get_retrieval_type", key, None, head_outcome, None, <<HeadObject(key)>>,
           get_retrieval_type(key, head_outcome))

NextS3 ==
  \/ S3Get /\ UNCHANGED <<editVars, mergeVars, searchVars, concVars, typeVars, headerVars, routerVars>>
  \/ S3RangeUrl /\ UNCHANGED <<editVars, mergeVars, searchVars, concVars, typeVars, headerVars, routerVars>>
  \/ S3Head /\ UNCHANGED <<editVars, mergeVars, searchVars, concVars, typeVars, headerVars, routerVars>>
  \/ S3GetRetrievalType /\ UNCHANGED <<editVars, mergeVars, searchVars, concVars, typeVars, headerVars, routerVars>>

SpecS3 == InitS3 /\ [][NextS3]_vars

----------------------------------------------------------------------------
(* Claims about S3Storage *)

S3Op == s3out[1]

\* the number a sequence of decimal digits denotes
RECURSIVE ParseDecimal(_)
ParseDecimal(digits) ==
  IF Len(digits) = 0 THEN 0
  ELSE 10 * ParseDecimal(SubSeq(digits, 1, Len(digits) - 1))
         + (CHOOSE d \in 0..9 : to_string(d) = <<digits[Len(digits)]>>)

IsDecimal(digits) ==
  /\ Len(digits) >= 1
  /\ \A i \in 1..Len(digits) : \E d \in 0..9 : to_string(d) = <<digits[i]>>

\* value is bytes=<first>-<last>, last = None for an absent upper bound
IsRangeValue(value, first, last) ==
  /\ StartsWith(value, <<"b", "y", "t", "e", "s", "=">>)
  /\ \E dash \in 7..Len(value) :
       /\ value[dash] = "-"
       /\ IsDecimal(SubSeq(value, 7, dash - 1))
       /\ ParseDecimal(SubSeq(value, 7, dash - 1)) = first
       /\ IF last = None THEN dash = Len(value)
          ELSE /\ IsDecimal(SubSeq(value, dash + 1, Len(value)))
               /\ ParseDecimal(SubSeq(value, dash + 1, Len(value))) = last[1]

Sent(op) == \E i \in 1..Len(s3sent) : s3sent[i].op = op

IsDelayed(obj) ==
  /\ \/ obj.storage_class \in {Some("GLACIER"), Some("DEEP_ARCHIVE")}
     \/ obj.storage_class = Some("INTELLIGENT_TIERING") /\ obj.archive_status # None
  /\ \/ obj.restore = None
     \/ \A i \in 1..Len(obj.restore[1]) : obj.restore[1][i] # "ongoing-request=\"false\""

\* C24: get_retrieval_type answers Delayed exactly for an object of class
\* Glacier or DeepArchive, or IntelligentTiering with an archive status, whose
\* restore header is absent or lacks ongoing-request="false", and Immediate
\* for every other object; get on a Delayed object sends no GetObject request
\* and returns AwsS3Error.
C24_DelayedNeverFetched ==
  /\ (s3out # None /\ S3Op.op = "get_retrieval_type" /\ IsOk(S3Op.result))
       => S3Op.result.value[1].retrieval = (IF IsDelayed(s3) THEN "Delayed" ELSE "Immediate")
  /\ (s3out # None /\ S3Op.op = "get" /\ s3.exists /\ IsDelayed(s3))
       => /\ ~Sent("GetObject")
          /\ S3Op.result = Err([kind |-> "AwsS3Error", key |-> S3Op.key])
  /\ (s3out # None /\ S3Op.op = "get" /\ IsOk(S3Op.head_outcome) /\ ~IsDelayed(s3))
       => Sent("GetObject")

C24_Witness ==
  /\ s3out # None
  /\ S3Op.op = "get"
  /\ IsOk(S3Op.head_outcome)
  /\ s3.storage_class = Some("INTELLIGENT_TIERING")
  /\ s3.archive_status # None
  /\ s3.restore = Some(<<"ongoing-request=\"true\"">>)
  /\ s3sent = <<[op |-> "HeadObject", key |-> "key2", range |-> None]>>
  /\ S3Op.result = Err([kind |-> "AwsS3Error", key |-> "key2"])

----------------------------------------------------------------------------
(* Claims about the BCF search of an invalid range *)

\* message is <first>-<last> in decimal
IsJoinedByDash(message, first, last) ==
  \E dash \in 1..Len(message) :
    /\ message[dash] = "-"
    /\ IsDecimal(SubSeq(message, 1, dash - 1))
    /\ ParseDecimal(SubSeq(message, 1, dash - 1)) = first
    /\ IsDecimal(SubSeq(message, dash + 1, Len(message)))
    /\ ParseDecimal(SubSeq(message, dash + 1, Len(message))) = last

InvalidSeqRangeQuery ==
  /\ file = sample1_bcbio_cancer
  /\ query = Query(Bcf, Body, Some("chrM"), Some(0), Some(153), FALSE)

----------------------------------------------------------------------------
(* Router (htsget-http-lambda/src/lib.rs) *)

\* Endpoint
Reads == "Reads"
Variants == "Variants"

\* paths are sequences of characters
ReadsPrefix == <<"/", "r", "e", "a", "d", "s", "/">>
VariantsPrefix == <<"/", "v", "a", "r", "i", "a", "n", "t", "s", "/">>
ServiceInfoName == <<"s", "e", "r", "v", "i", "c", "e", "-", "i", "n", "f", "o">>

\* str::strip_prefix
strip_prefix(s, prefix) ==
  IF Len(s) >= Len(prefix) /\ SubSeq(s, 1, Len(prefix)) = prefix
    THEN Some(SubSeq(s, Len(prefix) + 1, Len(s)))
    ELSE None

\* raw_http_path().parse::<Uri>(): fails on the empty string and on a character
\* that a URI cannot hold; Uri::path() is what comes before the query
Uri_parse(raw) ==
  IF raw = <<>> \/ \E i \in 1..Len(raw) : raw[i] = " " THEN Err("http::Error")
  ELSE LET marks == {i \in 1..Len(raw) : raw[i] = "?"}
           q == IF marks = {} THEN Len(raw) + 1 ELSE CHOOSE i \in marks : \A j \in marks : i <= j
       IN  Ok([path |-> SubSeq(raw, 1, q - 1)])

Route_new(method, endpoint, route_type) ==
  [method |-> method, endpoint |-> endpoint, route_type |-> route_type]

\* RouteType
ServiceInfo == [type |-> "ServiceInfo", id |-> <<>>]
Id(id) == [type |-> "Id", id |-> id]

\* the closure with_endpoint of get_route
with_endpoint(method, endpoint, endpoint_type) ==
  IF endpoint_type # <<>>
    THEN IF method \notin {"GET", "POST"} THEN None
         ELSE LET m == IF method = "GET" THEN "Get" ELSE "Post"
              IN  IF endpoint_type = ServiceInfoName
                    THEN Some(Route_new(m, endpoint, ServiceInfo))
                    ELSE Some(Route_new(m, endpoint, Id(endpoint_type)))
    ELSE None

\* a get_route that knows the reads endpoint only
get_route_reads_only(method, path) ==
  IF strip_prefix(path, ReadsPrefix) # None
    THEN with_endpoint(method, Reads, strip_prefix(path, ReadsPrefix)[1])
    ELSE None

\* Router::get_route, on the method and uri.path()
get_route(method, path) ==
  IF strip_prefix(path, ReadsPrefix) # None
    THEN with_endpoint(method, Reads, strip_prefix(path, ReadsPrefix)[1])
  ELSE IF strip_prefix(path, VariantsPrefix) # None
    THEN with_endpoint(method, Variants, strip_prefix(path, VariantsPrefix)[1])
  ELSE None

\* lambda_http payload::<PostRequest>(): Ok(None) without a JSON content type,
\* Ok(Some(..)) when the body deserializes, an error otherwise
payload(req) ==
  IF req.content_type # Some("application/json") THEN Ok(None)
  ELSE IF req.body = "post_request" THEN Ok(Some("PostRequest"))
  ELSE Err("PayloadError")

\* an extraction that takes the default PostRequest for any body it cannot read
extract_query_from_payload_lenient(req) ==
  IF req.body = "empty" \/ ~IsOk(payload(req)) \/ payload(req).value[1] = None
    THEN Some("PostRequest::default")
    ELSE payload(req).value[1]

\* Router::extract_query_from_payload
extract_query_from_payload(req) ==
  IF req.body = "empty" THEN Some("PostRequest::default")
  ELSE IF ~IsOk(payload(req)) THEN None
  ELSE payload(req).value[1]

\* the responses of route_request
StatusResponse(status) == [kind |-> "status", status |-> status]
ServiceInfoResponse(endpoint) == [kind |-> "service_info", endpoint |-> endpoint]
SearchResponse(method, id, endpoint, q) ==
  [kind |-> "search", method |-> method, id |-> id, endpoint |-> endpoint, query |-> q]

\* Router::route_request
route_request(req) ==
  LET uri == Uri_parse(req.raw_http_path)
      route == get_route(req.method, uri.value[1].path)
  IN  IF ~IsOk(uri) THEN uri
      ELSE IF route = None THEN Ok(StatusResponse(405))
      ELSE IF route[1].route_type.type = "ServiceInfo"
        THEN Ok(ServiceInfoResponse(route[1].endpoint))
      ELSE IF route[1].method = "Get"
        THEN Ok(SearchResponse("Get", route[1].route_type.id, route[1].endpoint, "query string"))
      ELSE IF extract_query_from_payload(req) = None THEN Ok(StatusResponse(415))
      ELSE Ok(SearchResponse("Post", route[1].route_type.id, route[1].endpoint,
                             extract_query_from_payload(req)[1]))

RawPaths ==
  {<<>>,
   <<"/", "p", "a", "t", "h", "/">>,
   <<"/", "r", "e", "a", "d", "s">>,
   ReadsPrefix,
   VariantsPrefix,
   ReadsPrefix \o ServiceInfoName,
   VariantsPrefix \o ServiceInfoName,
   ReadsPrefix \o <<"i", "d">>,
   VariantsPrefix \o <<"i", "d">>,
   ReadsPrefix \o <<"i", "d", "?", "c", "l", "a", "s", "s", "=", "h", "e", "a", "d", "e", "r">>,
   VariantsPrefix \o ServiceInfoName \o <<"/", "x">>,
   ReadsPrefix \o <<"a", " ", "b">>}

Requests ==
  [method : {"GET", "POST", "DELETE", "PUT"},
   raw_http_path : RawPaths,
   body : {"empty", "post_request", "malformed"},
   content_type : {None, Some("application/json")}]

InitRouter ==
  /\ lambda_request \in Requests
  /\ routed = None
  /\ EditIdle /\ MergeIdle /\ SearchIdle /\ ConcIdle /\ TypesIdle /\ HeadersIdle /\ S3Idle

\* Router::route_request; the Route it matched on is kept with the answer
RouteRequest ==
  /\ routed = None
  /\ routed' = Some([route |-> IF IsOk(Uri_parse(lambda_request.raw_http_path))
                                 THEN get_route(lambda_request.method,
                                                Uri_parse(lambda_request.raw_http_path).value[1].path)
                                 ELSE None,
                     answer |-> route_request(lambda_request)])
  /\ UNCHANGED lambda_request

NextRouter ==
  \/ RouteRequest /\ UNCHANGED <<editVars, mergeVars, searchVars, concVars, typeVars, headerVars, s3Vars>>

SpecRouter == InitRouter /\ [][NextRouter]_vars

----------------------------------------------------------------------------
(* Claims about the Router *)

UriPath == Uri_parse(lambda_request.raw_http_path).value[1].path
UriParsed == IsOk(Uri_parse(lambda_request.raw_http_path))

\* the x of /reads/<x> or /variants/<x>, for the endpoint
PathOf(endpoint) == IF endpoint = Reads THEN ReadsPrefix ELSE VariantsPrefix
HasEndpointPath(endpoint) ==
  /\ StartsWith(UriPath, PathOf(endpoint))
  /\ Len(UriPath) > Len(PathOf(endpoint))
PathRest(endpoint) == SubSeq(UriPath, Len(PathOf(endpoint)) + 1, Len(UriPath))

\* C25: get_route gives a route iff the method is GET or POST and the path is
\* /reads/<x> or /variants/<x> with x not empty; the endpoint is Reads or
\* Variants accordingly, the method Get or Post, and the route type is
\* ServiceInfo when x is service-info and Id(x) otherwise.
C25_GetRoute ==
  (routed # None /\ UriParsed) =>
    LET route == routed[1].route
    IN  /\ route # None
             <=> (/\ lambda_request.method \in {"GET", "POST"}
                  /\ \E endpoint \in {Reads, Variants} : HasEndpointPath(endpoint))
        /\ \A endpoint \in {Reads, Variants} :
             (route # None /\ HasEndpointPath(endpoint))
               => /\ route[1].endpoint = endpoint
                  /\ route[1].method = (IF lambda_request.method = "GET" THEN "Get" ELSE "Post")
                  /\ IF PathRest(endpoint) = <<"s", "e", "r", "v", "i", "c", "e", "-", "i", "n", "f", "o">>
                       THEN route[1].route_type = [type |-> "ServiceInfo", id |-> <<>>]
                       ELSE route[1].route_type = [type |-> "Id", id |-> PathRest(endpoint)]

C25_Witness ==
  /\ routed # None
  /\ lambda_request.method = "POST"
  /\ lambda_request.raw_http_path = VariantsPrefix \o <<"i", "d">>
  /\ routed[1].route = Some([method |-> "Post", endpoint |-> "Variants",
                             route_type |-> [type |-> "Id", id |-> <<"i", "d">>]])

Answer == routed[1].answer
HasRoute == routed[1].route # None
RouteIs(method, type) ==
  /\ HasRoute
  /\ routed[1].route[1].method = method
  /\ routed[1].route[1].route_type.type = type
BodyParses ==
  lambda_request.body = "post_request" /\ lambda_request.content_type = Some("application/json")

\* what the claim lists for a request, given its route
ListedOutcome ==
  /\ IsOk(Answer)
  /\ IF ~HasRoute THEN Answer.value[1] = [kind |-> "status", status |-> 405]
     ELSE IF routed[1].route[1].route_type.type = "ServiceInfo"
       THEN Answer.value[1].kind = "service_info"
     ELSE IF routed[1].route[1].method = "Get"
       THEN Answer.value[1].kind = "search" /\ Answer.value[1].method = "Get"
     ELSE IF lambda_request.body # "empty" /\ ~BodyParses
       THEN Answer.value[1] = [kind |-> "status", status |-> 415]
     ELSE /\ Answer.value[1].kind = "search" /\ Answer.value[1].method = "Post"
          /\ lambda_request.body = "empty" => Answer.value[1].query = "PostRequest::default"

\* C26 as stated: every request is answered with one of the listed outcomes.
C26_Original == routed # None => ListedOutcome

\* C26 amended: every request whose raw path parses as a URI is answered with
\* one of the listed outcomes; for a raw path that does not parse,
\* route_request returns the parse error and no response.
C26_RouteRequest ==
  routed # None =>
    IF UriParsed THEN ListedOutcome
    ELSE ~IsOk(Answer) /\ Answer.err = "http::Error"

C26_Witness ==
  /\ routed # None
  /\ lambda_request.method = "POST"
  /\ lambda_request.raw_http_path = ReadsPrefix \o <<"i", "d">>
  /\ lambda_request.body = "malformed"
  /\ lambda_request.content_type = Some("application/json")
  /\ Answer = Ok([kind |-> "status", status |-> 415])

----------------------------------------------------------------------------
(* Claims about the bytes an edit list keeps *)

\* the indexes of the 65536-byte blocks that hold a byte of some position
BlocksOf(ps) ==
  UNION {{k \in (ps[i].start \div BlockSize)..((ps[i].end - 1) \div BlockSize) : TRUE} :
           i \in {j \in 1..Len(ps) : ps[j].start < ps[j].end}}

RECURSIVE Ascending(_)
Ascending(set) ==
  IF set = {} THEN <<>>
  ELSE LET least == CHOOSE k \in set : \A j \in set : k <= j
       IN  <<least>> \o Ascending(set \ {least})

\* the offset in the stream of byte c of the plaintext made of the blocks, or
\* -1 when the plaintext is shorter
StreamOffset(blocks, c, len) ==
  IF c \div BlockSize >= Len(blocks) THEN -1
  ELSE LET at == blocks[(c \div BlockSize) + 1] * BlockSize + (c % BlockSize)
       IN  IF at >= len THEN -1 ELSE at

RECURSIVE SumTo(_, _)
SumTo(el, n) == IF n = 0 THEN 0 ELSE el[n] + SumTo(el, n - 1)

\* applying el to the plaintext of the blocks of ps keeps the bytes of each
\* position, in order
KeepsExactly(el, ps, len) ==
  LET blocks == Ascending(BlocksOf(ps))
  IN  /\ Len(el) = 2 * Len(ps)
      /\ \A i \in 1..Len(ps) :
           LET kept_from == SumTo(el, 2 * i - 1)
               keep == el[2 * i]
           IN  /\ keep = ps[i].end - ps[i].start
               /\ StreamOffset(blocks, kept_from, len) = ps[i].start
               /\ StreamOffset(blocks, kept_from + keep - 1, len) = ps[i].end - 1

NonEmptyPositions(ps) == \A i \in 1..Len(ps) : ps[i].start < ps[i].end

\* no block holds bytes of two positions
BlocksApart(ps) ==
  \A i, j \in 1..Len(ps) :
    i < j => (ps[i].end - 1) \div BlockSize < ps[j].start \div BlockSize

\* C27 as stated: for every sorted, non-overlapping list of positions, the
\* edit list of create_edit_list applied to the plaintext of the blocks that
\* overlap the positions, each once and ascending, keeps exactly the bytes of
\* the positions in order, also when two positions lie in one block.
C27_Original ==
  (IsSome(created) /\ NonEmptyPositions(eh.unencrypted_positions))
    => KeepsExactly(Unwrap(created), eh.unencrypted_positions, eh.stream_length)

\* the edit list keeps exactly the bytes of the positions when no block holds
\* bytes of two of them
KeepsExactlyWhenBlocksApart ==
  (/\ IsSome(created)
   /\ NonEmptyPositions(eh.unencrypted_positions)
   /\ BlocksApart(eh.unencrypted_positions))
    => KeepsExactly(Unwrap(created), eh.unencrypted_positions, eh.stream_length)

----------------------------------------------------------------------------
(* Claims about KeyType *)

GziEndings ==
  {<<".", "b", "a", "m", ".", "g", "z", "i">>,
   <<".", "v", "c", "f", ".", "g", "z", ".", "g", "z", "i">>,
   <<".", "b", "c", "f", ".", "g", "z", "i">>}

Classified == qres # None /\ qres[1].op = "from_ending"

\* C28 as stated: from_ending gives Index for a key that ends in the index
\* ending of any format (.bam.bai, .cram.crai, .vcf.gz.tbi, .bcf.csi) or in a
\* GZI ending, and File for a key that ends in a data-file ending.
C28_Original ==
  Classified =>
    /\ (\/ \E f \in Formats : EndsWith(qres[1].key, IndexEnding[f])
        \/ \E e \in GziEndings : EndsWith(qres[1].key, e))
         => qres[1].key_type = "Index"
    /\ (\E f \in Formats : EndsWith(qres[1].key, DataEnding[f]))
         => qres[1].key_type = "File"

\* from_ending is as stated for every key but those ending in .bcf.csi
KeyTypeButBcfIndex ==
  (Classified /\ ~EndsWith(qres[1].key, IndexEnding[Bcf])) => C28_Original

----------------------------------------------------------------------------
(* Headers::extend and Url (htsget-config/src/types.rs) *)

UrlHeaderKeys == {"Range", "header", "x"}

\* the Headers over these keys; a key without a value is not in the map
UrlHeaders == [UrlHeaderKeys -> {None, Some(<<"a">>), Some(<<"b">>)}]

\* Headers::is_empty
Headers_is_empty(h) == \A k \in DOMAIN h : h[k] = None

\* an extend that joins the values of a key both maps hold
extend_joining(h, other) ==
  [k \in DOMAIN h |->
     IF other[k] = None THEN h[k]
     ELSE IF h[k] = None THEN other[k]
     ELSE Some(h[k][1] \o <<",", " ">> \o other[k][1])]

\* Headers::extend: BTreeMap::extend inserts every entry of the argument
extend(h, other) == [k \in DOMAIN h |-> IF other[k] # None THEN other[k] ELSE h[k]]

\* Url::new
Url_new(url) == [url |-> url, headers |-> None, class |-> None]

\* Url::add_headers
add_headers(url, h) ==
  IF ~Headers_is_empty(h)
    THEN [url EXCEPT !.headers =
            Some(extend(IF url.headers = None THEN [k \in UrlHeaderKeys |-> None]
                        ELSE url.headers[1], h))]
    ELSE url

\* Url::with_headers
with_headers(url, h) == [url EXCEPT !.headers = IF Headers_is_empty(h) THEN None ELSE Some(h)]

InitUrl ==
  /\ headers = Url_new("data:application/vnd.ga4gh.bam;base64,QkFNAQ==")
  /\ hlog = <<>>
  /\ EditIdle /\ MergeIdle /\ SearchIdle /\ ConcIdle /\ TypesIdle /\ S3Idle /\ RouterIdle

\* hlog keeps the last call: the Url before it and its argument
UrlCall(op, h, after) ==
  /\ hlog' = <<[op |-> op, before |-> headers, arg |-> h]>>
  /\ headers' = after

UrlAddHeaders == \E h \in UrlHeaders : UrlCall("add_headers", h, add_headers(headers, h))
UrlWithHeaders == \E h \in UrlHeaders : UrlCall("with_headers", h, with_headers(headers, h))
\* Headers::extend on the headers of the Url, a public field
UrlHeadersExtend ==
  /\ headers.headers # None
  /\ \E h \in UrlHeaders :
       UrlCall("extend", h, [headers EXCEPT !.headers = Some(extend(headers.headers[1], h))])

NextUrl ==
  \/ UrlAddHeaders /\ UNCHANGED <<editVars, mergeVars, searchVars, concVars, typeVars, s3Vars, routerVars>>
  \/ UrlWithHeaders /\ UNCHANGED <<editVars, mergeVars, searchVars, concVars, typeVars, s3Vars, routerVars>>
  \/ UrlHeadersExtend /\ UNCHANGED <<editVars, mergeVars, searchVars, concVars, typeVars, s3Vars, routerVars>>

SpecUrl == InitUrl /\ [][NextUrl]_vars

----------------------------------------------------------------------------
(* Claims about Headers::extend and Url *)

LastUrlCall == hlog[1]
\* the value under a key of the headers of a Url, None without headers
ValueIn(url, k) == IF url.headers = None THEN None ELSE url.headers[1][k]
ArgEmpty == \A k \in UrlHeaderKeys : LastUrlCall.arg[k] = None

\* a key of the argument takes the argument's value, any other key keeps its own
Extended ==
  /\ headers.headers # None
  /\ \A k \in UrlHeaderKeys :
       ValueIn(headers, k) = (IF LastUrlCall.arg[k] # None THEN LastUrlCall.arg[k]
                              ELSE ValueIn(LastUrlCall.before, k))
  /\ headers.url = LastUrlCall.before.url
  /\ headers.class = LastUrlCall.before.class

\* C29: Headers::extend and Url::add_headers keep every key that only the
\* receiver holds, add every key that only the argument holds, and give a key
\* that both hold the argument's value; add_headers with empty headers leaves
\* the Url unchanged, and with_headers with empty headers sets headers to None.
C29_ExtendReplaces ==
  hlog # <<>> =>
    /\ LastUrlCall.op = "extend" => Extended
    /\ (LastUrlCall.op = "add_headers" /\ ~ArgEmpty) => Extended
    /\ (LastUrlCall.op = "add_headers" /\ ArgEmpty) => headers = LastUrlCall.before
    /\ (LastUrlCall.op = "with_headers" /\ ArgEmpty) => headers.headers = None

C29_Witness ==
  /\ hlog # <<>>
  /\ LastUrlCall.op = "add_headers"
  /\ LastUrlCall.before.headers =
       Some([k \in UrlHeaderKeys |-> IF k = "x" THEN None ELSE Some(<<"a">>)])
  /\ LastUrlCall.arg = [k \in UrlHeaderKeys |-> IF k = "Range" THEN None ELSE Some(<<"b">>)]
  /\ headers.headers =
       Some([k \in UrlHeaderKeys |-> IF k = "Range" THEN Some(<<"a">>) ELSE Some(<<"b">>)])

----------------------------------------------------------------------------
(* Claims about Interval::into_one_based *)

OneBasedFails == ~IsOk(Unwrap(qres).value)

\* C30: into_one_based returns an error for every interval whose end is
\* Some(0), the empty interval start = 0, end = 0 included, and never returns
\* an error for an interval with start < u32::MAX and end absent or >= 1.
C30_ZeroEndFails ==
  Called("into_one_based") =>
    /\ interval.end = Some(u32(0)) => OneBasedFails
    /\ ((interval.start = None \/ u32_lt(Unwrap(interval.start), U32Max))
          /\ (interval.end = None \/ u32_le(u32(1), Unwrap(interval.end))))
       => ~OneBasedFails

C30_Witness ==
  /\ Called("into_one_based")
  /\ interval = Interval_new(Some(u32(0)), Some(u32(0)))
  /\ OneBasedFails

====
